---------------------------- MODULE Spec2Model ----------------------------
(***************************************************************************)
(* Model of the combined pose-tracking component (PoseLandmarkerPage,      *)
(* src/workout-body-correction/lib/workout-storage.ts lines 746-1721):     *)
(* the push-up and squat repetition state machines, the repetition         *)
(* validator and scorer, the hand tracker, the template fetch and the      *)
(* webcam loop.                                                            *)
(*                                                                         *)
(* Numbers.  Angles are whole degrees.  Vertical positions (y) are counted *)
(* in eighths of the frame height (y = k/8, exactly representable as a     *)
(* double), so |shoulderY - hipY| <= 0.3 is 10*|a-b| <= 3*8.  Scores are   *)
(* exact rationals [num, den]; den = 0 stands for NaN.  null is NULL.      *)
(***************************************************************************)
EXTENDS Integers, Sequences, FiniteSets, TLC

NULL == -1000

\* ------------------------------------------------------------------
\* Thresholds
\* ------------------------------------------------------------------
ELBOW_TOP_ANGLE == 160
ELBOW_BOTTOM_ANGLE == 90
MIN_ANGLE_DELTA == 40
HIP_STRAIGHT_ANGLE == 150
START_TOP_STREAK == 3
MIN_VALID_FRAMES_PER_REP == 6
BOTTOM_ANGLE_MARGIN == 10
SQUAT_KNEE_TOP_ANGLE == 165
SQUAT_KNEE_BOTTOM_ANGLE == 100
SQUAT_MIN_ANGLE_DELTA == 35
SQUAT_MIN_VALID_FRAMES == 6

\* y values are k / YDen
YDen == 8
\* HORIZONTAL_BODY_MAX_DELTA_Y = 0.3 = HorizNum / HorizDen
HorizNum == 3
HorizDen == 10
\* visibilities are k / VisDen ; MIN_VIS_BODY = 0.4 = MinVisNum / VisDen
VisDen == 10
MinVisNum == 4

\* ------------------------------------------------------------------
\* Small helpers: integers, sequences, rationals
\* ------------------------------------------------------------------
Abs(x) == IF x < 0 THEN -x ELSE x
MinOf(a, b) == IF a <= b THEN a ELSE b
MaxOf(a, b) == IF a >= b THEN a ELSE b

RECURSIVE SeqMin(_)
SeqMin(s) == IF Len(s) = 1 THEN s[1] ELSE MinOf(s[1], SeqMin(Tail(s)))

RECURSIVE SeqMax(_)
SeqMax(s) == IF Len(s) = 1 THEN s[1] ELSE MaxOf(s[1], SeqMax(Tail(s)))

\* features.map(f => f.<field>).filter(v => v != null)
RECURSIVE NonNull(_)
NonNull(s) ==
  IF s = <<>> THEN <<>>
  ELSE IF Head(s) = NULL THEN NonNull(Tail(s))
  ELSE <<Head(s)>> \o NonNull(Tail(s))

ElbowAnglesOf(features) == NonNull([i \in 1..Len(features) |-> features[i].elbowAngle])
HipAnglesOf(features) == NonNull([i \in 1..Len(features) |-> features[i].hipAngle])

Rat(n, d) == [num |-> n, den |-> d]
RatIsNaN(a) == a.den = 0
RatAdd(a, b) == Rat(a.num * b.den + b.num * a.den, a.den * b.den)
RatScale(k, a) == Rat(k * a.num, a.den)
\* k - a
RatFromMinus(k, a) == Rat(k * a.den - a.num, a.den)
RatLeq(a, b) == a.num * b.den <= b.num * a.den
\* Math.max(lo, Math.min(hi, a)) for integers lo <= hi; NaN stays NaN
RatClamp(lo, hi, a) ==
  IF RatIsNaN(a) THEN a
  ELSE IF RatLeq(a, Rat(lo, 1)) THEN Rat(lo, 1)
  ELSE IF RatLeq(Rat(hi, 1), a) THEN Rat(hi, 1)
  ELSE a
RatInRange(lo, hi, a) ==
  /\ a.den > 0
  /\ RatLeq(Rat(lo, 1), a)
  /\ RatLeq(a, Rat(hi, 1))

\* ------------------------------------------------------------------
\* Push-up templates (pushup_template.json); id 0 is "no template"
\* ------------------------------------------------------------------
NoTemplate == 0

TemplateTable ==
  <<
    [phaseCount |-> 1,
     elbow |-> [mean |-> <<165>>, std |-> <<0>>],
     hip   |-> [mean |-> <<170>>, std |-> <<5>>]],
    [phaseCount |-> 3,
     elbow |-> [mean |-> <<165, 90, 165>>, std |-> <<10, 15, 10>>],
     hip   |-> [mean |-> <<170, 30, 170>>, std |-> <<10, 1, 0>>]]
  >>

TemplateIds == 1..Len(TemplateTable)

\* ------------------------------------------------------------------
\* Small helpers: angleDegrees and avg.  A landmark argument is a one-element
\* sequence <<[x, y, exp, visibility]>>, or <<>> when the array holds nothing
\* at that index.  Its coordinates are the doubles x * 2^exp and y * 2^exp
\* for small integers x and y: every such coordinate is a double, and
\* differences, products and sums of products of them are computed by the
\* code without rounding as long as they stay within the range of a double.
\* A computed number is given as an integer count of the power of two its
\* operands imply, or as Infinity, -Infinity or NaN (x and y are small
\* enough for no count to reach the values that stand for these).
\* ------------------------------------------------------------------
\* what a number-returning function yields instead of a number
NaN == -2000
TypeError == -3000
Infinity == 1000000

\* 2^MaxExp is the largest power of two that is a finite double, 2^MinExp the
\* smallest positive double; every integer written here is below 2^IntBits
MaxExp == 1023
MinExp == -1074
IntBits == 31

\* the landmark frames of the pose estimator are given in quarters
QuarterExp == -2

\* What rounding makes of a real number r * 2^e with 1 <= |r| < 2^IntBits:
\* an infinity when it lies beyond the largest double, zero when it lies
\* below half the smallest one, and itself ("finite") when every integer
\* multiple of 2^e of that size is a double.  The exponents in between, where
\* the result would be a rounded subnormal or depend on r, have no value
\* here.
RangeOf(e) ==
  CASE e > MaxExp -> "Infinity"
    [] e + IntBits < MinExp -> "zero"
    [] e >= MinExp /\ e + IntBits <= MaxExp -> "finite"

\* x * y for x and y counted in 2^e; the product is counted in 2^(2e)
Times(x, y, e) ==
  IF x * y = 0 THEN 0
  ELSE CASE RangeOf(2 * e) = "finite" -> x * y
         [] RangeOf(2 * e) = "zero" -> 0
         [] RangeOf(2 * e) = "Infinity" -> IF x * y > 0 THEN Infinity ELSE 0 - Infinity

\* p + q for two such products
Plus(p, q) ==
  CASE p = NaN \/ q = NaN -> NaN
    [] p = Infinity /\ q = 0 - Infinity -> NaN
    [] p = 0 - Infinity /\ q = Infinity -> NaN
    [] p \in {Infinity, 0 - Infinity} -> p
    [] q \in {Infinity, 0 - Infinity} -> q
    [] OTHER -> p + q

\* Math.max(-1, Math.min(1, dot / (mag1 * mag2))) for two vectors counted in
\* 2^e, neither of zero length.  Math.hypot gives each length without
\* overflow or underflow, so mag1 * mag2 lies in [1, 2^IntBits) * 2^(2e)
\* before it is rounded.  Rounded to 0 it meets a dot product that has been
\* rounded to 0 as well, and 0 / 0 is NaN; rounded to Infinity it makes 0 of
\* a zero dot product and NaN of an infinite one; and NaN passes the clamp.
\* Otherwise the quotient is exact in two cases: the dot product is 0, or
\* the vectors lie along one axis, where each length is the size of the one
\* non-zero component and the dot product is plus or minus their product.
\* Vectors in any other position, whose quotient is a rounded number, have
\* no value here.
ClampedCos(v1x, v1y, v2x, v2y, dot, e) ==
  CASE RangeOf(2 * e) = "zero" -> NaN
    [] RangeOf(2 * e) = "Infinity" -> IF dot = 0 THEN 0 ELSE NaN
    [] RangeOf(2 * e) = "finite" /\ dot = 0 -> 0
    [] RangeOf(2 * e) = "finite" /\ dot # 0 /\ v1x = 0 /\ v2x = 0 ->
         IF dot > 0 THEN 1 ELSE 0 - 1
    [] RangeOf(2 * e) = "finite" /\ dot # 0 /\ v1y = 0 /\ v2y = 0 ->
         IF dot > 0 THEN 1 ELSE 0 - 1

\* (Math.acos(cos) * 180) / Math.PI: exactly 0, 90 and 180 for the cosines
\* 1, 0 and -1, and NaN for NaN
DegreesOf(cos) ==
  CASE cos = 1 -> 0
    [] cos = 0 -> 90
    [] cos = 0 - 1 -> 180
    [] cos = NaN -> NaN

\* variant: the zero-length test is missing, so 0 / 0 is handed to Math.acos
angleDegrees_NoZeroCheck(a, b, c) ==
  IF a = <<>> \/ b = <<>> \/ c = <<>> THEN TypeError
  ELSE
    LET e == CHOOSE k \in {b[1].exp} :
               a[1].exp = k /\ c[1].exp = k /\ RangeOf(k) = "finite"
        v1x == a[1].x - b[1].x
        v1y == a[1].y - b[1].y
        v2x == c[1].x - b[1].x
        v2y == c[1].y - b[1].y
        dot == Plus(Times(v1x, v2x, e), Times(v1y, v2y, e))
        mag1IsZero == v1x = 0 /\ v1y = 0
        mag2IsZero == v2x = 0 /\ v2y = 0
    IN IF mag1IsZero \/ mag2IsZero THEN NaN
       ELSE DegreesOf(ClampedCos(v1x, v1y, v2x, v2y, dot, e))

\* The three points are counted in the same power of two, e, at which the
\* coordinates and their differences are doubles.  The lengths
\* mag1 and mag2 are only tested for being 0, which Math.hypot returns
\* exactly when both components are 0.
angleDegrees(a, b, c) ==
  IF a = <<>> \/ b = <<>> \/ c = <<>> THEN TypeError
  ELSE
    LET e == CHOOSE k \in {b[1].exp} :
               a[1].exp = k /\ c[1].exp = k /\ RangeOf(k) = "finite"
        v1x == a[1].x - b[1].x
        v1y == a[1].y - b[1].y
        v2x == c[1].x - b[1].x
        v2y == c[1].y - b[1].y
        dot == Plus(Times(v1x, v2x, e), Times(v1y, v2y, e))
        mag1IsZero == v1x = 0 /\ v1y = 0
        mag2IsZero == v2x = 0 /\ v2y = 0
    IN IF mag1IsZero \/ mag2IsZero THEN NULL
       ELSE DegreesOf(ClampedCos(v1x, v1y, v2x, v2y, dot, e))

\* (a + b) / 2 for two numbers in one unit whose sum is even in that unit,
\* so that the mean is a whole number of it; the mean of an odd sum has no
\* value here.  A NaN operand makes the sum NaN.
avg(a, b) ==
  IF a = NULL /\ b = NULL THEN NULL
  ELSE IF a = NULL THEN b
  ELSE IF b = NULL THEN a
  ELSE IF a = NaN \/ b = NaN THEN NaN
  ELSE CASE (a + b) % 2 = 0 -> (a + b) \div 2

\* ------------------------------------------------------------------
\* WorkoutStorage.  The localStorage item under STORAGE_KEY is <<>> when
\* absent and <<data>> otherwise, data being the stored string:
\*   [kind |-> "array", elems |-> its elements]  the JSON text of an array,
\*   [kind |-> "empty"]     the empty string,
\*   [kind |-> "invalid"]   text that JSON.parse rejects,
\*   [kind |-> "nonArray"]  the JSON text of an object, a number or null.
\* An array element is [elem |-> "object", id, date], [elem |-> "null"] or
\* [elem |-> "number"].  A session in memory is [id, date]: id is NULL when
\* the object has no id, date is a Date's time value and NaN for an invalid
\* Date.  JSON.stringify writes a Date as an ISO string, [iso |-> time value],
\* an invalid Date as null, [jsonNull |-> TRUE], and leaves an undefined id
\* out; getSessions turns the date back with new Date(s.date).  hasWindow is
\* typeof window !== 'undefined'.
\* ------------------------------------------------------------------
SESSION_LIMIT == 50

\* JSON.stringify(sessions)
Stringify(sessions) ==
  [kind |-> "array",
   elems |-> [i \in 1..Len(sessions) |->
                [elem |-> "object", id |-> sessions[i].id,
                 date |-> IF sessions[i].date = NaN
                          THEN [jsonNull |-> TRUE]
                          ELSE [iso |-> sessions[i].date]]]]

\* ({ ...s, date: new Date(s.date) }) for an element s that is not null:
\* new Date(null) is the epoch, new Date(undefined) is invalid
SessionOf(s) ==
  IF s.elem = "number" THEN [id |-> NULL, date |-> NaN]
  ELSE [id |-> s.id, date |-> IF "iso" \in DOMAIN s.date THEN s.date.iso ELSE 0]

\* variant: null elements of the stored array are left out
getSessions_SkipNull(hasWindow, item) ==
  IF ~hasWindow \/ item = <<>> THEN <<>>
  ELSE IF item[1].kind # "array" THEN <<>>
  ELSE LET kept == SelectSeq(item[1].elems, LAMBDA s : s.elem # "null")
       IN [i \in 1..Len(kept) |-> SessionOf(kept[i])]

getSessions(hasWindow, item) ==
  IF ~hasWindow THEN <<>>
  ELSE IF item = <<>> THEN <<>>
  ELSE LET data == item[1]
       IN IF data.kind = "empty" THEN <<>>
          \* JSON.parse throws a SyntaxError: caught
          ELSE IF data.kind = "invalid" THEN <<>>
          \* sessions.map is not a function, or sessions is null: caught
          ELSE IF data.kind = "nonArray" THEN <<>>
          \* s.date of a null element throws a TypeError: caught
          ELSE IF \E i \in 1..Len(data.elems) : data.elems[i].elem = "null" THEN <<>>
          ELSE [i \in 1..Len(data.elems) |-> SessionOf(data.elems[i])]

\* variant: the list is stored untrimmed
saveSession_NoTrim(hasWindow, item, id, date) ==
  IF hasWindow
  THEN << Stringify(<<[id |-> id, date |-> date]>> \o getSessions(hasWindow, item)) >>
  ELSE item

\* id is what crypto.randomUUID() returned, date what new Date() returned
saveSession(hasWindow, item, id, date) ==
  LET sessions == getSessions(hasWindow, item)
      newSession == [id |-> id, date |-> date]
      unshifted == <<newSession>> \o sessions
      trimmed == SubSeq(unshifted, 1, MinOf(SESSION_LIMIT, Len(unshifted)))
  IN IF hasWindow THEN <<Stringify(trimmed)>> ELSE item

deleteSession(hasWindow, item, id) ==
  LET sessions == getSessions(hasWindow, item)
      filtered == SelectSeq(sessions, LAMBDA s : s.id # id)
  IN IF hasWindow THEN <<Stringify(filtered)>> ELSE item

clearAll(hasWindow, item) == IF hasWindow THEN <<>> ELSE item

\* ------------------------------------------------------------------
\* extractFrameFeatures.  landmarks maps each joint the function reads to a
\* landmark argument as above, with exp = QuarterExp: x and y are in
\* quarters.  visibility is in eighths (BodyVisDen), NULL when undefined, so
\* that the code adds the visibilities up without rounding.  The heights of
\* the result are in eighths (YDen), the angles in degrees.
\* ------------------------------------------------------------------
Joints == {"lSh", "lEl", "lWr", "rSh", "rEl", "rWr", "lHip", "lAnk", "rHip", "rAnk", "nose"}

keyJoints == <<"lSh", "lEl", "lWr", "rSh", "rEl", "rWr", "lHip", "lAnk", "rHip", "rAnk">>

BodyVisDen == 8

\* visSum and visCount after the first n key joints
RECURSIVE VisSum(_, _)
VisSum(landmarks, n) ==
  IF n = 0 THEN 0
  ELSE LET j == landmarks[keyJoints[n]]
       IN VisSum(landmarks, n - 1)
          + (IF j = <<>> \/ j[1].visibility = NULL THEN 0 ELSE j[1].visibility)

RECURSIVE VisCount(_, _)
VisCount(landmarks, n) ==
  IF n = 0 THEN 0
  ELSE VisCount(landmarks, n - 1) + (IF landmarks[keyJoints[n]] = <<>> THEN 0 ELSE 1)

\* variant: an undefined visibility counts as full visibility
jointsVisibleEnough_UndefinedIsOne(landmarks) ==
  LET visCount == VisCount(landmarks, Len(keyJoints))
      undefinedOnes ==
        Cardinality({ n \in 1..Len(keyJoints) :
                        /\ landmarks[keyJoints[n]] # <<>>
                        /\ landmarks[keyJoints[n]][1].visibility = NULL })
  IN /\ visCount > 0
     /\ VisDen * (VisSum(landmarks, Len(keyJoints)) + BodyVisDen * undefinedOnes)
          >= MinVisNum * BodyVisDen * visCount

\* avgVis >= MIN_VIS_BODY, avgVis being visSum / visCount, or 0 without
\* joints.  visSum is exact; the quotient is rounded to the nearest double
\* and MIN_VIS_BODY is the double nearest to 0.4, so with at most ten joints
\* the comparison comes out as it does for the exact mean (visSum /
\* BodyVisDen) / visCount and the exact MinVisNum / VisDen: a mean of exactly
\* 0.4 is rounded to MIN_VIS_BODY itself, and any other mean is further from
\* 0.4 than the rounding moves it.
jointsVisibleEnough(landmarks) ==
  LET visSum == VisSum(landmarks, Len(keyJoints))
      visCount == VisCount(landmarks, Len(keyJoints))
  IN IF visCount > 0 THEN VisDen * visSum >= MinVisNum * BodyVisDen * visCount ELSE FALSE

\* p?.y ?? null, in eighths: a landmark's y is in quarters
yOrNull(p) ==
  IF p = <<>> THEN NULL
  ELSE CASE p[1].exp = QuarterExp -> 2 * p[1].y

\* The result is the FrameFeatures record, or [error |-> TypeError] when a
\* property of an absent landmark is read.
extractFrameFeatures(landmarks, t) ==
  LET lSh == landmarks["lSh"]
      lEl == landmarks["lEl"]
      lWr == landmarks["lWr"]
      rSh == landmarks["rSh"]
      rEl == landmarks["rEl"]
      rWr == landmarks["rWr"]
      lHip == landmarks["lHip"]
      lAnk == landmarks["lAnk"]
      rHip == landmarks["rHip"]
      rAnk == landmarks["rAnk"]
      nose == landmarks["nose"]
      shoulderY == avg(yOrNull(lSh), yOrNull(rSh))
      hipY == avg(yOrNull(lHip), yOrNull(rHip))
      headY == yOrNull(nose)
  IN IF ~jointsVisibleEnough(landmarks) THEN
       [t |-> t, elbowAngle |-> NULL, hipAngle |-> NULL,
        headY |-> headY, shoulderY |-> shoulderY, hipY |-> hipY]
     ELSE
       LET leftElbow == angleDegrees(lSh, lEl, lWr)
           rightElbow == angleDegrees(rSh, rEl, rWr)
           leftHip == angleDegrees(lSh, lHip, lAnk)
           rightHip == angleDegrees(rSh, rHip, rAnk)
       IN IF TypeError \in {leftElbow, rightElbow, leftHip, rightHip}
          THEN [error |-> TypeError]
          ELSE [t |-> t, elbowAngle |-> avg(leftElbow, rightElbow),
                hipAngle |-> avg(leftHip, rightHip),
                headY |-> headY, shoulderY |-> shoulderY, hipY |-> hipY]

\* ------------------------------------------------------------------
\* Rep validation & scoring
\* ------------------------------------------------------------------
\* variant: a seventh frame is required
repIsValid_SevenFrames(features) ==
  LET elbowAngles == ElbowAnglesOf(features)
  IN /\ Len(elbowAngles) >= MIN_VALID_FRAMES_PER_REP + 1
     /\ SeqMax(elbowAngles) - SeqMin(elbowAngles) >= MIN_ANGLE_DELTA
     /\ SeqMin(elbowAngles) <= ELBOW_BOTTOM_ANGLE + BOTTOM_ANGLE_MARGIN

\* variant: the number of frames is not looked at
repIsValid_AnyLength(features) ==
  LET elbowAngles == ElbowAnglesOf(features)
  IN /\ Len(elbowAngles) > 0
     /\ SeqMax(elbowAngles) - SeqMin(elbowAngles) >= MIN_ANGLE_DELTA
     /\ SeqMin(elbowAngles) <= ELBOW_BOTTOM_ANGLE + BOTTOM_ANGLE_MARGIN

\* variant: the lowest elbow angle must reach the bottom threshold itself
repIsValid_NoMargin(features) ==
  LET elbowAngles == ElbowAnglesOf(features)
  IN /\ Len(elbowAngles) >= MIN_VALID_FRAMES_PER_REP
     /\ SeqMax(elbowAngles) - SeqMin(elbowAngles) >= MIN_ANGLE_DELTA
     /\ SeqMin(elbowAngles) <= ELBOW_BOTTOM_ANGLE

\* variant: five frames are enough
repIsValid_FiveFrames(features) ==
  LET elbowAngles == ElbowAnglesOf(features)
  IN /\ Len(elbowAngles) >= MIN_VALID_FRAMES_PER_REP - 1
     /\ SeqMax(elbowAngles) - SeqMin(elbowAngles) >= MIN_ANGLE_DELTA
     /\ SeqMin(elbowAngles) <= ELBOW_BOTTOM_ANGLE + BOTTOM_ANGLE_MARGIN

repIsValid(features) ==
  LET elbowAngles == ElbowAnglesOf(features)
  IN IF Len(elbowAngles) = 0 THEN FALSE
     ELSE IF Len(elbowAngles) < MIN_VALID_FRAMES_PER_REP THEN FALSE
     ELSE LET minElbow == SeqMin(elbowAngles)
              maxElbow == SeqMax(elbowAngles)
              elbowRange == maxElbow - minElbow
          IN IF elbowRange < MIN_ANGLE_DELTA THEN FALSE
             ELSE IF ~(minElbow <= ELBOW_BOTTOM_ANGLE + BOTTOM_ANGLE_MARGIN) THEN FALSE
             ELSE TRUE

\* Index of the feature the nearest-neighbour scan of resampleRep keeps for
\* phase i (0-based) of phaseCount: the first one with the smallest
\* |f.t - targetT|, the t being whole numbers.  With phaseCount = 1 the
\* target is 0/0 = NaN, no comparison succeeds and features[0] is kept.
\* Otherwise targetT is t0 + (i / (phaseCount - 1)) * duration in doubles.
\* The quotient is a double, and with it the product and the sum, exactly
\* when the odd part of phaseCount - 1 divides i; then the code compares the
\* exact distances, given here multiplied by (phaseCount - 1).  When the
\* quotient is rounded, targetT may be off its exact value by a few units in
\* the last place: two exact distances that differ, differ by 1 / (phaseCount
\* - 1) at least and compare as they do exactly, and two features with the
\* same t have the same distance, but two features at different t that are
\* exactly as near as each other, and nearest, may come out either way.  That
\* case has no value here.
NearestIndex(features, phaseCount, i) ==
  IF phaseCount = 1 THEN 1
  ELSE
    LET t0 == features[1].t
        t1 == features[Len(features)].t
        duration == IF t1 - t0 = 0 THEN 1 ELSE t1 - t0
        oddPart == CHOOSE o \in 1..(phaseCount - 1) :
                     /\ o % 2 = 1
                     /\ (phaseCount - 1) % o = 0
                     /\ \A q \in 1..(phaseCount - 1) :
                          (q % 2 = 1 /\ (phaseCount - 1) % q = 0) => q <= o
        targetIsExact == i % oddPart = 0
        dt(k) == Abs(features[k].t * (phaseCount - 1)
                     - (t0 * (phaseCount - 1) + i * duration))
        best == CHOOSE k \in 1..Len(features) :
                  /\ \A j \in 1..Len(features) : dt(k) <= dt(j)
                  /\ \A j \in 1..(k - 1) : dt(j) > dt(k)
        tied == \E j \in 1..Len(features) :
                  dt(j) = dt(best) /\ features[j].t # features[best].t
    IN CASE targetIsExact \/ ~tied -> best

resampleRep(features, phaseCount) ==
  IF Len(features) = 0 THEN <<>>
  ELSE [p \in 1..phaseCount |->
          LET best == features[NearestIndex(features, phaseCount, p - 1)]
          IN [elbow |-> IF best.elbowAngle = NULL THEN 0 ELSE best.elbowAngle,
              hip   |-> IF best.hipAngle = NULL THEN 0 ELSE best.hipAngle]]

\* totalZ after the first n phases of the template loop
RECURSIVE TotalZ(_, _, _)
TotalZ(tpl, repPhases, n) ==
  IF n = 0 THEN Rat(0, 1)
  ELSE
    LET rep == repPhases[n]
        mE == tpl.elbow.mean[n]
        sE == IF tpl.elbow.std[n] = 0 THEN 1 ELSE tpl.elbow.std[n]
        zE == Rat(Abs(rep.elbow - mE), sE)
        mH == tpl.hip.mean[n]
        sH == IF tpl.hip.std[n] = 0 THEN 1 ELSE tpl.hip.std[n]
        zH == Rat(Abs(rep.hip - mH), sH)
    IN RatAdd(TotalZ(tpl, repPhases, n - 1), RatAdd(zE, zH))

\* variant: the percentage is returned unclamped
templateScore_Raw(features, tpl) ==
  LET phaseCount == tpl.phaseCount
      repPhases == resampleRep(features, phaseCount)
  IN IF Len(repPhases) # phaseCount THEN Rat(0, 1)
     ELSE
       LET totalZ == TotalZ(tpl, repPhases, phaseCount)
           avgZ == Rat(totalZ.num, totalZ.den * 2 * phaseCount)
       IN RatFromMinus(100, RatScale(10, avgZ))

templateScore(features, tpl) ==
  LET phaseCount == tpl.phaseCount
      repPhases == resampleRep(features, phaseCount)
  IN IF Len(repPhases) # phaseCount THEN Rat(0, 1)
     ELSE
       LET totalZ == TotalZ(tpl, repPhases, phaseCount)
           count == 2 * phaseCount
           avgZ == Rat(totalZ.num, totalZ.den * count)
           raw == RatFromMinus(100, RatScale(10, avgZ))
       IN RatClamp(0, 100, raw)

\* variant: the range-of-motion component is not clamped to 70 points
ruleScore_NoRangeClamp(features) ==
  LET elbowAngles == ElbowAnglesOf(features)
      hipAngles == HipAnglesOf(features)
  IN IF Len(elbowAngles) = 0 \/ Len(hipAngles) = 0 THEN Rat(0, 1)
     ELSE
       LET elbowRange == SeqMax(elbowAngles) - SeqMin(elbowAngles)
           rangePoints == RatScale(70, Rat(elbowRange, 80))
           hipScore == RatClamp(0, 1, Rat(SeqMax(hipAngles) - 140, 40))
           hipPoints == RatScale(30, hipScore)
       IN RatClamp(0, 100, RatAdd(rangePoints, hipPoints))

\* variant: the straightness component starts at a hip angle of 150
ruleScore_HipFrom150(features) ==
  LET elbowAngles == ElbowAnglesOf(features)
      hipAngles == HipAnglesOf(features)
  IN IF Len(elbowAngles) = 0 \/ Len(hipAngles) = 0 THEN Rat(0, 1)
     ELSE
       LET elbowRange == SeqMax(elbowAngles) - SeqMin(elbowAngles)
           rangePoints == RatScale(70, RatClamp(0, 1, Rat(elbowRange, 80)))
           hipScore == RatClamp(0, 1, Rat(SeqMax(hipAngles) - 150, 40))
           hipPoints == RatScale(30, hipScore)
       IN RatClamp(0, 100, RatAdd(rangePoints, hipPoints))

ruleScore(features) ==
  LET elbowAngles == ElbowAnglesOf(features)
      hipAngles == HipAnglesOf(features)
  IN IF Len(elbowAngles) = 0 \/ Len(hipAngles) = 0 THEN Rat(0, 1)
     ELSE
       LET minElbow == SeqMin(elbowAngles)
           maxElbow == SeqMax(elbowAngles)
           elbowRange == maxElbow - minElbow
           maxHip == SeqMax(hipAngles)
           rangeScore == RatClamp(0, 1, Rat(elbowRange, 80))
           rangePoints == RatScale(70, rangeScore)
           hipScore == RatClamp(0, 1, Rat(maxHip - 140, 40))
           hipPoints == RatScale(30, hipScore)
       IN RatClamp(0, 100, RatAdd(rangePoints, hipPoints))

\* variant: without a template the first profile of the table is used
scoreRep_DefaultProfile(features, template) ==
  IF template # NoTemplate
  THEN templateScore(features, TemplateTable[template])
  ELSE templateScore(features, TemplateTable[1])

\* template = NoTemplate or a template id
scoreRep(features, template) ==
  IF template # NoTemplate
  THEN templateScore(features, TemplateTable[template])
  ELSE ruleScore(features)


\* ------------------------------------------------------------------
\* Push-up state machine
\* ------------------------------------------------------------------
PushupStates == {"WAITING_FOR_START", "AT_TOP", "GOING_DOWN", "AT_BOTTOM", "GOING_UP"}

\* variant: the posture band is 0.5 wide
bodyIsHorizontal_Loose(features) ==
  2 * Abs(features.shoulderY - features.hipY) <= YDen

bodyIsHorizontal(features) ==
  HorizDen * Abs(features.shoulderY - features.hipY) <= HorizNum * YDen

\* variant: two consecutive top frames are enough
startStreakReached_Two(topStreak) == topStreak >= START_TOP_STREAK - 1

\* topStreakRef.current >= START_TOP_STREAK, after the increment
startStreakReached(topStreak) == topStreak >= START_TOP_STREAK

\* variant: the hip angle is not looked at
atTopOf_ElbowOnly(features) == features.elbowAngle >= ELBOW_TOP_ANGLE

atTopOf(features) ==
  features.elbowAngle >= ELBOW_TOP_ANGLE /\ features.hipAngle >= HIP_STRAIGHT_ANGLE

\* variant: the bottom is reached within the validator's margin
atBottomOf_Loose(features) ==
  features.elbowAngle <= ELBOW_BOTTOM_ANGLE + BOTTOM_ANGLE_MARGIN

atBottomOf(features) == features.elbowAngle <= ELBOW_BOTTOM_ANGLE

\* variant: only a missing elbow angle stops the frame
anglesMissing_ElbowOnly(features) == features.elbowAngle = NULL

\* elbowAngle == null || hipAngle == null
anglesMissing(features) == features.elbowAngle = NULL \/ features.hipAngle = NULL

\* variant: going down, a frame back at the top is not taken as an abort
pushupTarget_NoAbort(state, features) ==
  LET atTop == atTopOf(features)
      atBottom == atBottomOf(features)
      elbowAngle == features.elbowAngle
  IN CASE state = "AT_TOP" ->
            IF ~atTop /\ elbowAngle < ELBOW_TOP_ANGLE - 5 THEN "GOING_DOWN" ELSE state
       [] state = "GOING_DOWN" -> IF atBottom THEN "AT_BOTTOM" ELSE state
       [] state = "AT_BOTTOM" ->
            IF ~atBottom /\ elbowAngle > ELBOW_BOTTOM_ANGLE + 5 THEN "GOING_UP" ELSE state
       [] state = "GOING_UP" -> IF atTop THEN "AT_TOP" ELSE state
       [] OTHER -> state

\* variant: a frame at the bottom takes the machine there from the top too
pushupTarget_SkipDown(state, features) ==
  LET atTop == atTopOf(features)
      atBottom == atBottomOf(features)
      elbowAngle == features.elbowAngle
  IN CASE state = "AT_TOP" ->
            IF atBottom THEN "AT_BOTTOM"
            ELSE IF ~atTop /\ elbowAngle < ELBOW_TOP_ANGLE - 5 THEN "GOING_DOWN" ELSE state
       [] state = "GOING_DOWN" ->
            IF atBottom THEN "AT_BOTTOM" ELSE IF atTop THEN "AT_TOP" ELSE state
       [] state = "AT_BOTTOM" ->
            IF ~atBottom /\ elbowAngle > ELBOW_BOTTOM_ANGLE + 5 THEN "GOING_UP" ELSE state
       [] state = "GOING_UP" -> IF atTop THEN "AT_TOP" ELSE state
       [] OTHER -> state

\* The state that the switch hands to setStateIfChanged for a horizontal
\* frame with angles, or state itself where it calls nothing.  Leaving
\* WAITING_FOR_START depends on the streak and is decided in updatePushupState.
pushupTarget(state, features) ==
  LET atTop == atTopOf(features)
      atBottom == atBottomOf(features)
      elbowAngle == features.elbowAngle
  IN CASE state = "AT_TOP" ->
            IF ~atTop /\ elbowAngle < ELBOW_TOP_ANGLE - 5 THEN "GOING_DOWN" ELSE state
       [] state = "GOING_DOWN" ->
            IF atBottom THEN "AT_BOTTOM" ELSE IF atTop THEN "AT_TOP" ELSE state
       [] state = "AT_BOTTOM" ->
            IF ~atBottom /\ elbowAngle > ELBOW_BOTTOM_ANGLE + 5 THEN "GOING_UP" ELSE state
       [] state = "GOING_UP" -> IF atTop THEN "AT_TOP" ELSE state
       [] OTHER -> state

\* variant: the log holds the newest repetition only
logPush_KeepNewest(completedReps, rep) == <<rep>>

\* completedRepsRef.current.push({ features, correctness })
logPush(completedReps, rep) == Append(completedReps, rep)

\* variant: the closed buffer is kept as the in-progress buffer
bufferAfterClose_Reuse(repFeatures, features, stored) ==
  [currentRep |-> repFeatures, bufferInLog |-> stored]

\* currentRepRef.current = [features] after a cycle is closed: a new array,
\* whether or not the old one went into the log (stored is the log index it
\* went to, 0 when it was rejected)
bufferAfterClose(repFeatures, features, stored) ==
  [currentRep |-> <<features>>, bufferInLog |-> 0]

\* The refs the push-up machine reads and writes, as one record m:
\*   pushupState, lastState, currentRep, completedReps, baselineHeadY,
\*   topStreak, uiRepCount, and bufferInLog, the index of the log entry whose
\*   features array is the very array currentRepRef.current refers to (0 when
\*   the buffer is an array of its own).  A push on the buffer is a push on
\*   that entry's features as well.
\* Result: [m |-> the refs after the call, emitted |-> the events dispatched].
updatePushupState(m, features, template, now) ==
  LET state == m.pushupState
      elbowAngle == features.elbowAngle
      hipAngle == features.hipAngle
      headY == features.headY
      Quiet(mm) == [m |-> mm, emitted |-> <<>>]
  IN
  IF anglesMissing(features) THEN
    IF state = "WAITING_FOR_START"
    THEN Quiet([m EXCEPT !.topStreak = 0])
    ELSE Quiet(m)
  ELSE IF features.shoulderY = NULL \/ features.hipY = NULL THEN
    Quiet(m)
  ELSE IF ~bodyIsHorizontal(features) THEN
    IF state # "WAITING_FOR_START"
    THEN Quiet([m EXCEPT !.pushupState = "WAITING_FOR_START",
                         !.currentRep = <<>>,
                         !.bufferInLog = 0,
                         !.topStreak = 0])
    ELSE Quiet(m)
  ELSE
    LET atTop == atTopOf(features)
        atBottom == atBottomOf(features)
        pushed == Append(m.currentRep, features)
        \* the refs after currentRepRef.current.push(features)
        mp == IF m.bufferInLog > 0
              THEN [m EXCEPT !.currentRep = pushed,
                             !.completedReps[m.bufferInLog].features = pushed]
              ELSE [m EXCEPT !.currentRep = pushed]
        target == pushupTarget(state, features)
    IN
    CASE state = "WAITING_FOR_START" ->
           IF atTop THEN
             IF startStreakReached(m.topStreak + 1)
             THEN Quiet([m EXCEPT !.topStreak = m.topStreak + 1,
                                  !.pushupState = "AT_TOP",
                                  !.lastState = "AT_TOP",
                                  !.currentRep = <<features>>,
                                  !.bufferInLog = 0,
                                  !.baselineHeadY = headY])
             ELSE Quiet([m EXCEPT !.topStreak = m.topStreak + 1])
           ELSE Quiet([m EXCEPT !.topStreak = 0])
      [] state = "AT_TOP" ->
           IF target # state
           THEN Quiet([mp EXCEPT !.currentRep = pushed,
                                !.pushupState = target,
                                !.lastState = target])
           ELSE Quiet(mp)
      [] state = "GOING_DOWN" ->
           IF atBottom
           THEN Quiet([mp EXCEPT !.currentRep = pushed,
                                !.pushupState = target,
                                !.lastState = target])
           ELSE IF atTop
           THEN Quiet([mp EXCEPT !.currentRep = <<features>>,
                                 !.bufferInLog = 0,
                                 !.pushupState = target,
                                !.lastState = target])
           ELSE Quiet(mp)
      [] state = "AT_BOTTOM" ->
           IF target # state
           THEN Quiet([mp EXCEPT !.currentRep = pushed,
                                !.pushupState = target,
                                !.lastState = target])
           ELSE Quiet(mp)
      [] state = "GOING_UP" ->
           IF atTop THEN
             LET repFeatures == pushed
                 closed(stored) ==
                   LET next == bufferAfterClose(repFeatures, features, stored)
                   IN [mp EXCEPT !.pushupState = target,
                                 !.lastState = target,
                                 !.currentRep = next.currentRep,
                                 !.bufferInLog = next.bufferInLog,
                                 !.baselineHeadY =
                                    IF m.baselineHeadY = NULL /\ headY # NULL
                                    THEN headY ELSE m.baselineHeadY]
             IN IF repIsValid(repFeatures) THEN
                  LET score == scoreRep(repFeatures, template)
                      reps == logPush(mp.completedReps,
                                      [features |-> repFeatures, correctness |-> score])
                      repCount == Len(reps)
                  IN [m |-> [closed(repCount) EXCEPT !.completedReps = reps,
                                                     !.uiRepCount = repCount],
                      emitted |-> <<[type |-> "pushupCompleted",
                                     score |-> score,
                                     repCount |-> repCount,
                                     timestamp |-> now]>>]
                ELSE Quiet(closed(m.bufferInLog))
           ELSE Quiet(mp)

\* ------------------------------------------------------------------
\* The standalone push-up component: its thresholds, validator, scorer and
\* state machine.  m has the fields pushupState, currentRep, completedReps,
\* topStreak, uiRepCount (the component has no lastStateRef, no
\* baselineHeadYRef and no template).
\* ------------------------------------------------------------------
Standalone_ELBOW_TOP_ANGLE == 160
Standalone_ELBOW_BOTTOM_ANGLE == 90
Standalone_MIN_ANGLE_DELTA == 40
Standalone_HIP_STRAIGHT_ANGLE == 150
Standalone_START_TOP_STREAK == 3
Standalone_MIN_VALID_FRAMES_PER_REP == 6
Standalone_BOTTOM_ANGLE_MARGIN == 10
\* HORIZONTAL_BODY_MAX_DELTA_Y = 0.3 = Standalone_HorizNum / Standalone_HorizDen
Standalone_HorizNum == 3
Standalone_HorizDen == 10

\* variant: one more usable frame is asked for
standaloneRepIsValid_SevenFrames(features) ==
  LET elbowAngles == ElbowAnglesOf(features)
  IN /\ Len(elbowAngles) >= Standalone_MIN_VALID_FRAMES_PER_REP + 1
     /\ SeqMax(elbowAngles) - SeqMin(elbowAngles) >= Standalone_MIN_ANGLE_DELTA
     /\ SeqMin(elbowAngles) <= Standalone_ELBOW_BOTTOM_ANGLE + Standalone_BOTTOM_ANGLE_MARGIN

standaloneRepIsValid(features) ==
  LET elbowAngles == ElbowAnglesOf(features)
  IN IF Len(elbowAngles) = 0 THEN FALSE
     ELSE IF Len(elbowAngles) < Standalone_MIN_VALID_FRAMES_PER_REP THEN FALSE
     ELSE LET minElbow == SeqMin(elbowAngles)
              maxElbow == SeqMax(elbowAngles)
              elbowRange == maxElbow - minElbow
          IN IF elbowRange < Standalone_MIN_ANGLE_DELTA THEN FALSE
             ELSE IF ~(minElbow <= Standalone_ELBOW_BOTTOM_ANGLE
                                     + Standalone_BOTTOM_ANGLE_MARGIN) THEN FALSE
             ELSE TRUE

standaloneScoreRep(features) ==
  LET elbowAngles == ElbowAnglesOf(features)
      hipAngles == HipAnglesOf(features)
  IN IF Len(elbowAngles) = 0 \/ Len(hipAngles) = 0 THEN Rat(0, 1)
     ELSE
       LET minElbow == SeqMin(elbowAngles)
           maxElbow == SeqMax(elbowAngles)
           elbowRange == maxElbow - minElbow
           maxHip == SeqMax(hipAngles)
           rangeScore == RatClamp(0, 1, Rat(elbowRange, 80))
           rangePoints == RatScale(70, rangeScore)
           hipScore == RatClamp(0, 1, Rat(maxHip - 140, 40))
           hipPoints == RatScale(30, hipScore)
       IN RatClamp(0, 100, RatAdd(rangePoints, hipPoints))

standaloneUpdatePushupState(m, features, now) ==
  LET state == m.pushupState
      elbowAngle == features.elbowAngle
      hipAngle == features.hipAngle
      Quiet(mm) == [m |-> mm, emitted |-> <<>>]
  IN
  IF elbowAngle = NULL \/ hipAngle = NULL THEN
    IF state = "WAITING_FOR_START"
    THEN Quiet([m EXCEPT !.topStreak = 0])
    ELSE Quiet(m)
  ELSE IF features.shoulderY = NULL \/ features.hipY = NULL THEN
    Quiet(m)
  ELSE IF ~(Standalone_HorizDen * Abs(features.shoulderY - features.hipY)
              <= Standalone_HorizNum * YDen) THEN
    IF state # "WAITING_FOR_START"
    THEN Quiet([m EXCEPT !.pushupState = "WAITING_FOR_START",
                         !.currentRep = <<>>,
                         !.topStreak = 0])
    ELSE Quiet(m)
  ELSE
    LET atTop == /\ elbowAngle >= Standalone_ELBOW_TOP_ANGLE
                 /\ hipAngle >= Standalone_HIP_STRAIGHT_ANGLE
        atBottom == elbowAngle <= Standalone_ELBOW_BOTTOM_ANGLE
        pushed == Append(m.currentRep, features)
    IN
    CASE state = "WAITING_FOR_START" ->
           IF atTop THEN
             IF m.topStreak + 1 >= Standalone_START_TOP_STREAK
             THEN Quiet([m EXCEPT !.topStreak = m.topStreak + 1,
                                  !.pushupState = "AT_TOP",
                                  !.currentRep = <<features>>])
             ELSE Quiet([m EXCEPT !.topStreak = m.topStreak + 1])
           ELSE Quiet([m EXCEPT !.topStreak = 0])
      [] state = "AT_TOP" ->
           IF ~atTop /\ elbowAngle < Standalone_ELBOW_TOP_ANGLE - 5
           THEN Quiet([m EXCEPT !.currentRep = pushed, !.pushupState = "GOING_DOWN"])
           ELSE Quiet([m EXCEPT !.currentRep = pushed])
      [] state = "GOING_DOWN" ->
           IF atBottom
           THEN Quiet([m EXCEPT !.currentRep = pushed, !.pushupState = "AT_BOTTOM"])
           ELSE IF atTop
           THEN Quiet([m EXCEPT !.currentRep = <<features>>, !.pushupState = "AT_TOP"])
           ELSE Quiet([m EXCEPT !.currentRep = pushed])
      [] state = "AT_BOTTOM" ->
           IF ~atBottom /\ elbowAngle > Standalone_ELBOW_BOTTOM_ANGLE + 5
           THEN Quiet([m EXCEPT !.currentRep = pushed, !.pushupState = "GOING_UP"])
           ELSE Quiet([m EXCEPT !.currentRep = pushed])
      [] state = "GOING_UP" ->
           IF atTop THEN
             LET repFeatures == pushed
                 closed == [m EXCEPT !.pushupState = "AT_TOP",
                                     !.currentRep = <<features>>]
             IN IF standaloneRepIsValid(repFeatures) THEN
                  LET score == standaloneScoreRep(repFeatures)
                      reps == Append(m.completedReps,
                                     [features |-> repFeatures, correctness |-> score])
                      repCount == Len(reps)
                  IN [m |-> [closed EXCEPT !.completedReps = reps,
                                           !.uiRepCount = repCount],
                      emitted |-> <<[type |-> "pushupCompleted",
                                     score |-> score,
                                     repCount |-> repCount,
                                     timestamp |-> now]>>]
                ELSE Quiet(closed)
           ELSE Quiet([m EXCEPT !.currentRep = pushed])

\* ------------------------------------------------------------------
\* Squat state machine.  The frame is given by what the code derives from
\* the landmarks: visibleEnough (average visibility of hips, knees and
\* ankles >= MIN_VIS_BODY) and kneeAngle (NULL when neither side resolves).
\* m has the fields squatState, squatCurrentRepAngles, squatTopStreak,
\* completedReps, uiRepCount.
\* ------------------------------------------------------------------
SquatStates == {"WAITING_FOR_START", "STANDING", "GOING_DOWN", "AT_BOTTOM", "GOING_UP"}

\* variant: five buffered knee angles are enough
squatRepIsValid_FiveFrames(angles) ==
  /\ Len(angles) >= SQUAT_MIN_VALID_FRAMES - 1
  /\ SeqMin(angles) <= SQUAT_KNEE_BOTTOM_ANGLE + 5
  /\ SeqMax(angles) - SeqMin(angles) >= SQUAT_MIN_ANGLE_DELTA

\* the test a closed squat buffer has to pass (angles.length and reachedBottom)
squatRepIsValid(angles) ==
  IF Len(angles) >= SQUAT_MIN_VALID_FRAMES THEN
    LET minKnee == SeqMin(angles)
        maxKnee == SeqMax(angles)
        range == maxKnee - minKnee
        reachedBottom ==
          minKnee <= SQUAT_KNEE_BOTTOM_ANGLE + 5 /\ range >= SQUAT_MIN_ANGLE_DELTA
    IN reachedBottom
  ELSE FALSE

\* variant: a low-visibility frame throws the machine back to the start
squatAfterLowVisibility_Reset(m) ==
  [m EXCEPT !.squatState = "WAITING_FOR_START",
            !.squatCurrentRepAngles = <<>>,
            !.squatTopStreak = 0]

\* the refs after a frame with avgVis < MIN_VIS_BODY
squatAfterLowVisibility(m) ==
  IF m.squatState = "WAITING_FOR_START"
  THEN [m EXCEPT !.squatTopStreak = 0]
  ELSE m

updateSquatState(m, visibleEnough, kneeAngle, now) ==
  LET state == m.squatState
      Quiet(mm) == [m |-> mm, emitted |-> <<>>]
  IN
  IF ~visibleEnough THEN
    Quiet(squatAfterLowVisibility(m))
  ELSE IF kneeAngle = NULL THEN
    Quiet(m)
  ELSE
    LET atTop == kneeAngle >= SQUAT_KNEE_TOP_ANGLE
        atBottom == kneeAngle <= SQUAT_KNEE_BOTTOM_ANGLE
        pushed == Append(m.squatCurrentRepAngles, kneeAngle)
    IN
    CASE state = "WAITING_FOR_START" ->
           IF atTop THEN
             IF m.squatTopStreak + 1 >= START_TOP_STREAK
             THEN Quiet([m EXCEPT !.squatTopStreak = m.squatTopStreak + 1,
                                  !.squatState = "STANDING",
                                  !.squatCurrentRepAngles = <<kneeAngle>>])
             ELSE Quiet([m EXCEPT !.squatTopStreak = m.squatTopStreak + 1])
           ELSE Quiet([m EXCEPT !.squatTopStreak = 0])
      [] state = "STANDING" ->
           IF ~atTop /\ kneeAngle < SQUAT_KNEE_TOP_ANGLE - 5
           THEN Quiet([m EXCEPT !.squatCurrentRepAngles = pushed,
                                !.squatState = "GOING_DOWN"])
           ELSE Quiet([m EXCEPT !.squatCurrentRepAngles = pushed])
      [] state = "GOING_DOWN" ->
           IF atBottom
           THEN Quiet([m EXCEPT !.squatCurrentRepAngles = pushed,
                                !.squatState = "AT_BOTTOM"])
           ELSE IF atTop
           THEN Quiet([m EXCEPT !.squatCurrentRepAngles = <<kneeAngle>>,
                                !.squatState = "STANDING"])
           ELSE Quiet([m EXCEPT !.squatCurrentRepAngles = pushed])
      [] state = "AT_BOTTOM" ->
           IF ~atBottom /\ kneeAngle > SQUAT_KNEE_BOTTOM_ANGLE + 5
           THEN Quiet([m EXCEPT !.squatCurrentRepAngles = pushed,
                                !.squatState = "GOING_UP"])
           ELSE Quiet([m EXCEPT !.squatCurrentRepAngles = pushed])
      [] state = "GOING_UP" ->
           IF atTop THEN
             LET angles == pushed
                 closed == [m EXCEPT !.squatState = "STANDING",
                                     !.squatCurrentRepAngles = <<kneeAngle>>]
             IN IF squatRepIsValid(angles) THEN
                  LET reps == Append(m.completedReps,
                                     [features |-> <<>>, correctness |-> Rat(100, 1)])
                      repCount == Len(reps)
                  IN [m |-> [closed EXCEPT !.completedReps = reps,
                                           !.uiRepCount = repCount],
                      emitted |-> <<[type |-> "squatCompleted",
                                     repCount |-> repCount,
                                     timestamp |-> now]>>]
                ELSE Quiet(closed)
           ELSE Quiet([m EXCEPT !.squatCurrentRepAngles = pushed])

\* ------------------------------------------------------------------
\* Hand Y tracker.  The wrist landmark is given as a one-element sequence
\* <<[y, visibility]>>, or <<>> when landmarks[wristIndex] is absent; y is in
\* eighths and may lie outside 0..YDen, visibility is in tenths or NULL.
\* The emitted y is 1 - clamp(wrist.y, 0, 1), in eighths.
\* ------------------------------------------------------------------
\* variant: wrist.y is not clamped
trackHandY_NoClamp(wrist, hand, now) ==
  IF wrist = <<>> THEN <<>>
  ELSE
    LET vis == IF wrist[1].visibility = NULL THEN 0 ELSE wrist[1].visibility
    IN IF vis < MinVisNum THEN <<>>
       ELSE <<[type |-> "handYUpdate", hand |-> hand, y |-> YDen - wrist[1].y,
               timestamp |-> now]>>

\* variant: a wrist exactly at the visibility gate is dropped
trackHandY_StrictGate(wrist, hand, now) ==
  IF wrist = <<>> THEN <<>>
  ELSE
    LET vis == IF wrist[1].visibility = NULL THEN 0 ELSE wrist[1].visibility
    IN IF vis <= MinVisNum THEN <<>>
       ELSE <<[type |-> "handYUpdate", hand |-> hand,
               y |-> YDen - MaxOf(0, MinOf(YDen, wrist[1].y)), timestamp |-> now]>>

trackHandY(wrist, hand, now) ==
  IF wrist = <<>> THEN <<>>
  ELSE
    LET vis == IF wrist[1].visibility = NULL THEN 0 ELSE wrist[1].visibility
    IN IF vis < MinVisNum THEN <<>>
       ELSE
         LET yClamped == MaxOf(0, MinOf(YDen, wrist[1].y))
             yNorm == YDen - yClamped
         IN <<[type |-> "handYUpdate", hand |-> hand, y |-> yNorm, timestamp |-> now]>>

\* ------------------------------------------------------------------
\* Bounds of the model and input domains
\* ------------------------------------------------------------------
\* video frames delivered after the first one, over a run of the loop
MaxTicks == 7
\* the same, over a run of the whole component
MaxCamTicks == 2
\* predictWebcam invocations and getUserMedia requests outstanding at once
MaxLoops == 2
\* handleToggleWebcam is called at most this many times more, where a run
\* lets it be called again
MaxPresses == 2

\* Date.now() values
Timestamps == {1001, 1002}

ExerciseTypes == {"PUSHUPS", "SQUATS", "RIGHT_HAND_Y", "LEFT_HAND_Y"}

\* A closure of the component function is identified by the pushupTemplate
\* value of the render that created it.
Closures == {NoTemplate} \cup TemplateIds

\* What extractFrameFeatures derives from a pose, before t is attached
Pose(e, h, hd, sy, hy) ==
  [elbowAngle |-> e, hipAngle |-> h, headY |-> hd, shoulderY |-> sy, hipY |-> hy]

\* extractFrameFeatures(firstPose, t), given the pose's derived values
FrameFeatures(pose, t) ==
  [t |-> t, elbowAngle |-> pose.elbowAngle, hipAngle |-> pose.hipAngle,
   headY |-> pose.headY, shoulderY |-> pose.shoulderY, hipY |-> pose.hipY]

\* Poses for the push-up machine.  |2/8 - 4/8| <= 0.3 is lying flat,
\* |1/8 - 4/8| > 0.3 is upright.
TopPose == Pose(165, 170, 1, 2, 4)
MidPose == Pose(130, 140, 1, 2, 4)
BottomPose == Pose(88, 170, 1, 2, 4)
BentTopPose == Pose(165, 140, 1, 2, 4)
UprightMidPose == Pose(130, 170, 1, 1, 4)
UprightTopPose == Pose(165, 170, 1, 1, 4)
NoAnglePose == Pose(NULL, NULL, 1, 2, 4)
UprightNoAnglePose == Pose(NULL, NULL, NULL, 1, 4)
NoHipAnglePose == Pose(165, NULL, 1, 2, 4)

PushupPoses ==
  {TopPose, MidPose, BottomPose, BentTopPose, UprightMidPose, UprightTopPose,
   NoAnglePose, UprightNoAnglePose, NoHipAnglePose}

\* the poses of the component-lifecycle specification
CamPushupPoses == {TopPose, MidPose, BottomPose, UprightMidPose}

\* What updateSquatState derives from the landmarks: <<visibleEnough, kneeAngle>>
SquatPoses ==
  { <<TRUE, k>> : k \in {NULL, 95, 130, 170} } \cup { <<FALSE, 170>> }

CamSquatPoses == { <<TRUE, k>> : k \in {95, 130, 170} }

\* Scripted frame sequences (elbow angles; every frame lies flat with hip
\* angle >= 150): one full repetition, and one that never reaches the bottom
FullRepScript == <<170, 168, 169, 150, 110, 88, 130, 165>>
ShallowScript == <<170, 168, 169, 150, 168>>
NearBottomScript == <<170, 168, 169, 150, 95, 96, 130, 165>>

\* Buffers handed directly to repIsValid and scoreRep: up to MaxRepLen frames
\* drawn from RepPoses (f[i] is the i-th), one frame per video time 0, 1, 2, ...
MaxRepLen == 6

RepPoses ==
  { Pose(NULL, 181, 1, 2, 4), Pose(20, NULL, 1, 2, 4), Pose(61, 139, 1, 2, 4),
    Pose(100, 140, 1, 2, 4), Pose(101, 141, 1, 2, 4), Pose(141, 180, 1, 2, 4) }

RepBuffer(k, f) == [i \in 1..k |-> FrameFeatures(f[i], i - 1)]

\* the elbow stops exactly 5 degrees below the top threshold before going down
BoundaryScript == <<170, 168, 169, 155, 150, 88, 130, 165>>
\* two full repetitions, one after the other
TwoRepScript == <<170, 168, 169, 150, 110, 88, 130, 165, 150, 110, 88, 130, 165>>

\* a cycle closed with only 5 frames buffered
ShortRepScript == <<170, 168, 169, 150, 88, 130, 165>>

\* the elbow rises to exactly 5 degrees above the bottom threshold
RiseBoundaryScript == <<170, 168, 169, 150, 88, 95, 130, 165>>

\* the shallowest and least straight repetition the machine can close: the
\* elbow only just reaches 160 and 90, the hip angle is 150 throughout
MinimalRepScript == <<160, 160, 160, 150, 120, 90, 130, 160>>

Scripts ==
  {FullRepScript, ShallowScript, NearBottomScript, BoundaryScript, TwoRepScript,
   ShortRepScript, RiseBoundaryScript, MinimalRepScript}

\* Scripted squats (knee angles, joints visible): one repetition reaching 95,
\* one closed a frame too early, and two repetitions in a row
SquatScript == <<170, 170, 170, 140, 95, 95, 120, 170>>
ShortSquatScript == <<170, 170, 170, 140, 95, 120, 170>>
TwoSquatScript == <<170, 170, 170, 140, 95, 95, 120, 170, 140, 95, 95, 120, 170>>

SquatScripts == {SquatScript, ShortSquatScript, TwoSquatScript}

\* the hip angles and shoulder heights a scripted frame may come with
\* a repetition, an aborted descent, a second repetition, a cycle closed with
\* 5 frames buffered, and one more frame at the top; any of its frames may
\* show the body upright
LogScript ==
  <<170, 168, 169, 150, 110, 88, 130, 165, 150, 165, 150, 110, 88, 130, 165,
    150, 88, 130, 165, 165>>

ScriptHips(s) ==
  IF s \in {TwoRepScript, LogScript} THEN {170}
  ELSE IF s = MinimalRepScript THEN {150} ELSE {150, 180}
ScriptShoulders(s) ==
  IF s \in {TwoRepScript, MinimalRepScript} THEN {2}
  ELSE IF s = LogScript THEN {1, 2} ELSE {2, 4}

NoCall == [fn |-> "none", features |-> <<>>, template |-> NoTemplate, result |-> NULL]

\* Landmark frames handed to extractFrameFeatures: a skeleton (where each
\* joint is, <<x, y>> in quarters), the joints that are absent, and the
\* visibilities.  In every skeleton the two vectors of each angle are at a
\* right angle, or lie along one axis, or one of them has no length.
Skeleton(sh, el, wr, hip, ank, j) ==
  CASE j \in {"lSh", "rSh"} -> sh
    [] j \in {"lEl", "rEl"} -> el
    [] j \in {"lWr", "rWr"} -> wr
    [] j \in {"lHip", "rHip"} -> hip
    [] j \in {"lAnk", "rAnk"} -> ank
    [] OTHER -> <<0, 2>>

\* straight arms and a straight body, lying flat
PlankSkeleton == [j \in Joints |-> Skeleton(<<1, 2>>, <<1, 3>>, <<1, 4>>, <<3, 2>>, <<4, 2>>, j)]
\* both elbows at a right angle
BentSkeleton == [j \in Joints |-> Skeleton(<<1, 2>>, <<2, 3>>, <<1, 4>>, <<3, 2>>, <<4, 2>>, j)]
\* the right side differs from the left: shoulder higher, hip lower, elbow
\* and hip at a right angle
MixedSkeleton ==
  [PlankSkeleton EXCEPT !["rSh"] = <<1, 1>>, !["rWr"] = <<2, 3>>,
                        !["rHip"] = <<1, 3>>, !["rAnk"] = <<2, 3>>]
\* the left elbow coincides with the left shoulder
LeftCollapsedSkeleton == [PlankSkeleton EXCEPT !["lEl"] = <<1, 2>>]
\* both elbows coincide with the shoulders
CollapsedSkeleton == [j \in Joints |-> Skeleton(<<1, 2>>, <<1, 2>>, <<1, 4>>, <<3, 2>>, <<4, 2>>, j)]

Skeletons ==
  {PlankSkeleton, BentSkeleton, MixedSkeleton, LeftCollapsedSkeleton, CollapsedSkeleton}

\* at most MaxAbsent joints are absent, or all key joints, or all joints
MaxAbsent == 2

AbsentSets ==
  { A \in SUBSET Joints : Cardinality(A) <= MaxAbsent }
    \cup { Joints, Joints \ {"nose"} }

\* the first n key joints have visibility low (undefined or 0), all other
\* joints high (0.5 or 1)
VisPatterns ==
  { [j \in Joints |-> IF \E k \in 1..n : keyJoints[k] = j THEN low ELSE high] :
      n \in 0..Len(keyJoints), low \in {NULL, 0}, high \in {BodyVisDen \div 2, BodyVisDen} }

LandmarksOf(skeleton, absent, vis) ==
  [j \in Joints |->
     IF j \in absent THEN <<>>
     ELSE <<[x |-> skeleton[j][1], y |-> skeleton[j][2], exp |-> QuarterExp,
             visibility |-> vis[j]]>>]

\* The points handed directly to angleDegrees: a grid of 3 by 3 points,
\* counted in quarters, in 2^-600 or in 2^600.  At 2^-600 the product of two
\* lengths is rounded to 0, at 2^600 to Infinity.
AngleExps == {0 - 600, QuarterExp, 600}

AnglePoints(e) ==
  { <<[x |-> x, y |-> y, exp |-> e, visibility |-> BodyVisDen]>> : x \in 0..2, y \in 0..2 }

\* the two vectors are at a right angle, or lie along one axis, or one of
\* them has no length: the triples for which angleDegrees has a value here
ExactAngle(a, b, c) ==
  LET v1x == a[1].x - b[1].x
      v1y == a[1].y - b[1].y
      v2x == c[1].x - b[1].x
      v2y == c[1].y - b[1].y
  IN \/ v1x * v2x + v1y * v2y = 0
     \/ v1x = 0 /\ v2x = 0
     \/ v1y = 0 /\ v2y = 0

\* the wrists handed directly to trackHandY: absent, or at a height from
\* -2/8 to 10/8 with a visibility that is undefined, 0, 0.3, 0.4 or 1
HandWrists ==
  { <<>> } \cup
  { <<[y |-> y, visibility |-> v]>> : y \in (0 - 2)..(YDen + 2), v \in {NULL, 0, 3, 4, 10} }

\* landmarks[wristIndex], <<>> when absent
Wrists ==
  { <<>> } \cup { <<[y |-> y, visibility |-> v]>> : y \in {-2, 0, 3, 8, 11}, v \in {NULL, 3, 4, 9} }

\* ------------------------------------------------------------------
\* State of the component
\* ------------------------------------------------------------------
VARIABLES
  excType,              \* the compiled-in exercise type
  script,               \* elbow angles the camera will show, frame by frame;
                        \* <<>> when the frames are free
  call,                 \* a direct call of repIsValid or scoreRep:
                        \* [fn, features, template, result], fn = "none"
                        \* before the call is made
  mounted,              \* the component is mounted (videoRef.current is set)
  hasWebcamSupport,     \* navigator.mediaDevices.getUserMedia exists
  modelLoad,            \* createPoseLandmarker: "loading", "ready", "failed"
  effectDue,            \* closure of the render that scheduled the auto-start
                        \* effect and has not run it yet, or NULL
  webcamRunning,        \* webcamRunningRef
  gumPending,           \* outstanding getUserMedia promises, per closure
  srcObject,            \* video.srcObject is a MediaStream
  videoLoaded,          \* loadeddata has fired for the current stream
  onloadeddata,         \* closure of video.onloadeddata, or NULL
  raf,                  \* animation frames requested for predictWebcam and
                        \* not yet run, per closure
  awaiting,             \* predictWebcam invocations waiting at
                        \* await poseLandmarker.setOptions(...), per closure
  videoTime,            \* video.currentTime at the last callback
  ticks,                \* frames delivered so far, over all streams
  presses,              \* further calls of handleToggleWebcam so far
  lastVideoTime,        \* lastVideoTimeRef
  pushupTemplate,       \* React state: NoTemplate or a template id
  fetchState,           \* template fetch: "pending", "loaded", "failed"
  pushupState, lastState, currentRep, completedReps, baselineHeadY, topStreak,
  bufferInLog,          \* index of the log entry whose features array is the
                        \* array currentRepRef.current refers to, 0 for none
  standalone,           \* the standalone push-up component shown the same
                        \* frames: [m |-> its refs, emitted |-> its last events]
  squatState, squatCurrentRepAngles, squatTopStreak,
  uiRepCount,
  debugLast,            \* newest entry of debugFramesRef, <<>> when empty
  emitted,              \* events dispatched by the last step
  topRun,               \* history: consecutive "at top" frames fed to the
                        \* running machine so far, staying at 3 once reached
  sawBottom             \* history: a frame with elbow angle <= 90 was fed
                        \* to the push-up machine

machineVars ==
  <<pushupState, lastState, currentRep, completedReps, baselineHeadY, topStreak,
    bufferInLog, standalone, squatState, squatCurrentRepAngles, squatTopStreak, uiRepCount, debugLast>>

envVars == <<excType, script, call>>

histVars == <<topRun, sawBottom>>

camVars ==
  <<mounted, hasWebcamSupport, modelLoad, effectDue, webcamRunning, gumPending,
    srcObject, videoLoaded, onloadeddata, raf, awaiting>>

vars ==
  <<envVars, camVars, videoTime, ticks, presses, lastVideoTime, pushupTemplate, fetchState,
    machineVars, emitted, histVars>>

pushupRefs ==
  [pushupState |-> pushupState, lastState |-> lastState, currentRep |-> currentRep,
   completedReps |-> completedReps, baselineHeadY |-> baselineHeadY,
   topStreak |-> topStreak, uiRepCount |-> uiRepCount, bufferInLog |-> bufferInLog]

squatRefs ==
  [squatState |-> squatState, squatCurrentRepAngles |-> squatCurrentRepAngles,
   squatTopStreak |-> squatTopStreak, completedReps |-> completedReps,
   uiRepCount |-> uiRepCount]

\* variant: the append to the log is not written back
SetPushupRefs_KeepLog(m) ==
  /\ pushupState' = m.pushupState
  /\ lastState' = m.lastState
  /\ currentRep' = m.currentRep
  /\ baselineHeadY' = m.baselineHeadY
  /\ topStreak' = m.topStreak
  /\ bufferInLog' = m.bufferInLog
  /\ completedReps' = completedReps
  /\ uiRepCount' = IF mounted THEN m.uiRepCount ELSE uiRepCount

\* the refs take the values the step computed; setUiRepCount is a state
\* update, which React drops on an unmounted component
SetPushupRefs(m) ==
  /\ pushupState' = m.pushupState
  /\ lastState' = m.lastState
  /\ currentRep' = m.currentRep
  /\ completedReps' = m.completedReps
  /\ baselineHeadY' = m.baselineHeadY
  /\ topStreak' = m.topStreak
  /\ bufferInLog' = m.bufferInLog
  /\ uiRepCount' = IF mounted THEN m.uiRepCount ELSE uiRepCount

SetSquatRefs(m) ==
  /\ squatState' = m.squatState
  /\ squatCurrentRepAngles' = m.squatCurrentRepAngles
  /\ squatTopStreak' = m.squatTopStreak
  /\ completedReps' = m.completedReps
  /\ uiRepCount' = IF mounted THEN m.uiRepCount ELSE uiRepCount

\* the useRef / useState initial values of the detection state
InitMachines ==
  /\ pushupState = "WAITING_FOR_START"
  /\ lastState = "WAITING_FOR_START"
  /\ currentRep = <<>>
  /\ completedReps = <<>>
  /\ bufferInLog = 0
  /\ standalone = [m |-> [pushupState |-> "WAITING_FOR_START", currentRep |-> <<>>,
                          completedReps |-> <<>>, topStreak |-> 0, uiRepCount |-> 0],
                   emitted |-> <<>>]
  /\ baselineHeadY = NULL
  /\ topStreak = 0
  /\ squatState = "WAITING_FOR_START"
  /\ squatCurrentRepAngles = <<>>
  /\ squatTopStreak = 0
  /\ uiRepCount = 0
  /\ debugLast = <<>>
  /\ emitted = <<>>
  /\ topRun = 0
  /\ sawBottom = FALSE

\* the component right after its first render and mount effects
InitComponent ==
  /\ excType \in ExerciseTypes
  /\ script = <<>>
  /\ hasWebcamSupport \in BOOLEAN
  /\ mounted = TRUE
  /\ modelLoad = "loading"
  /\ effectDue = NULL
  /\ webcamRunning = FALSE
  /\ gumPending = [c \in Closures |-> 0]
  /\ srcObject = FALSE
  /\ videoLoaded = FALSE
  /\ onloadeddata = NULL
  /\ raf = [c \in Closures |-> 0]
  /\ awaiting = [c \in Closures |-> 0]
  /\ videoTime = 0
  /\ ticks = 0
  /\ presses = 0
  /\ lastVideoTime = -1
  /\ pushupTemplate = NoTemplate
  /\ fetchState = "pending"
  /\ InitMachines

Init == InitComponent /\ call = NoCall

RECURSIVE BagSize(_, _)
BagSize(b, S) ==
  IF S = {} THEN 0
  ELSE LET c == CHOOSE x \in S : TRUE IN b[c] + BagSize(b, S \ {c})

Outstanding ==
  BagSize(gumPending, Closures) + BagSize(raf, Closures) + BagSize(awaiting, Closures)

\* the run of consecutive "at top" frames after feeding features
NextTopRun(features) ==
  IF topRun >= 3 THEN 3
  ELSE IF features.elbowAngle # NULL /\ features.hipAngle # NULL /\ atTopOf(features)
  THEN topRun + 1
  ELSE 0

\* the same for the squat machine: consecutive processed frames with
\* sufficient visibility and knee angle >= SQUAT_KNEE_TOP_ANGLE
NextSquatTopRun(visibleEnough, kneeAngle) ==
  IF topRun >= 3 THEN 3
  ELSE IF visibleEnough /\ kneeAngle # NULL /\ kneeAngle >= SQUAT_KNEE_TOP_ANGLE
  THEN topRun + 1
  ELSE 0

\* ------------------------------------------------------------------
\* Model and template loading
\* ------------------------------------------------------------------
\* createPoseLandmarker() resolved: poseLandmarkerRef is set, setIsReady(true)
\* re-renders, and that render schedules the auto-start effect with the
\* handleToggleWebcam it created (the template it saw)
CreatePoseLandmarkerResolved ==
  /\ modelLoad = "loading"
  /\ modelLoad' = "ready"
  /\ effectDue' = IF mounted THEN pushupTemplate ELSE NULL
  /\ emitted' = <<>>
  /\ UNCHANGED <<envVars, mounted, hasWebcamSupport, webcamRunning, gumPending, srcObject,
                 videoLoaded, onloadeddata, raf, awaiting, videoTime, ticks, presses, lastVideoTime,
                 pushupTemplate, fetchState, machineVars, histVars>>

\* createPoseLandmarker() rejected: only logged
CreatePoseLandmarkerFailed ==
  /\ modelLoad = "loading"
  /\ modelLoad' = "failed"
  /\ emitted' = <<>>
  /\ UNCHANGED <<envVars, mounted, hasWebcamSupport, effectDue, webcamRunning, gumPending,
                 srcObject, videoLoaded, onloadeddata, raf, awaiting, videoTime, ticks, presses, lastVideoTime,
                 pushupTemplate, fetchState, machineVars, histVars>>

\* fetch("/pushup_template.json") resolved with a template: setPushupTemplate(data)
TemplateLoaded ==
  /\ fetchState = "pending"
  \* a state update on an unmounted component is dropped
  /\ \E id \in TemplateIds : pushupTemplate' = IF mounted THEN id ELSE pushupTemplate
  /\ fetchState' = "loaded"
  /\ emitted' = <<>>
  /\ UNCHANGED <<envVars, camVars, videoTime, ticks, presses, lastVideoTime, machineVars, histVars>>

\* the fetch failed or res.ok was false: only a warning is logged
TemplateFetchFailed ==
  /\ fetchState = "pending"
  /\ fetchState' = "failed"
  /\ emitted' = <<>>
  /\ UNCHANGED <<envVars, camVars, videoTime, ticks, presses, lastVideoTime, pushupTemplate,
                 machineVars, histVars>>

\* ------------------------------------------------------------------
\* Webcam + MediaPipe loop
\* ------------------------------------------------------------------
\* handleToggleWebcam as run by closure c
ToggleWebcam(c) ==
  IF modelLoad # "ready" \/ ~hasWebcamSupport \/ ~mounted THEN
    UNCHANGED <<webcamRunning, gumPending, srcObject, videoLoaded, videoTime>>
  ELSE IF webcamRunning THEN
    \* Turn OFF
    /\ webcamRunning' = FALSE
    /\ srcObject' = FALSE
    /\ videoLoaded' = FALSE
    /\ videoTime' = 0
    /\ UNCHANGED gumPending
  ELSE
    \* Turn ON
    /\ webcamRunning' = TRUE
    /\ gumPending' = [gumPending EXCEPT ![c] = @ + 1]
    /\ UNCHANGED <<srcObject, videoLoaded, videoTime>>

\* handleToggleWebcam called once more, on the component's current render.
\* The page itself has no control that calls it (its only caller is the
\* auto-start effect), so this step is not part of Next.
HandleToggleWebcam ==
  /\ mounted
  /\ modelLoad = "ready"
  /\ hasWebcamSupport
  /\ webcamRunning \/ Outstanding < MaxLoops
  /\ presses < MaxPresses
  /\ presses' = presses + 1
  /\ ToggleWebcam(pushupTemplate)
  /\ emitted' = <<>>
  /\ UNCHANGED <<envVars, mounted, hasWebcamSupport, modelLoad, effectDue, onloadeddata, raf, awaiting,
                 ticks, lastVideoTime, pushupTemplate, fetchState, machineVars, histVars>>

\* useEffect([isReady, hasWebcamSupport]): start the webcam once the model is
\* ready.  The effect runs the handleToggleWebcam of the render that
\* scheduled it, whatever has been rendered since.
AutoStartEffect ==
  /\ effectDue # NULL
  /\ mounted
  /\ effectDue' = NULL
  /\ IF modelLoad = "ready" /\ hasWebcamSupport /\ ~webcamRunning
     THEN /\ Outstanding < MaxLoops
          /\ ToggleWebcam(effectDue)
     ELSE UNCHANGED <<webcamRunning, gumPending, srcObject, videoLoaded, videoTime>>
  /\ emitted' = <<>>
  /\ UNCHANGED <<envVars, mounted, hasWebcamSupport, modelLoad, onloadeddata, raf, awaiting,
                 ticks, presses, lastVideoTime, pushupTemplate, fetchState, machineVars, histVars>>

\* getUserMedia resolved for the request made by closure c
GetUserMediaResolved ==
  \E c \in Closures :
    /\ gumPending[c] > 0
    /\ gumPending' = [gumPending EXCEPT ![c] = @ - 1]
    /\ srcObject' = TRUE
    /\ videoLoaded' = FALSE
    /\ videoTime' = 0
    /\ onloadeddata' = c
    /\ emitted' = <<>>
    /\ UNCHANGED <<envVars, mounted, hasWebcamSupport, modelLoad, effectDue, webcamRunning, raf, awaiting,
                   ticks, presses, lastVideoTime, pushupTemplate, fetchState, machineVars, histVars>>

\* getUserMedia rejected
GetUserMediaRejected ==
  \E c \in Closures :
    /\ gumPending[c] > 0
    /\ gumPending' = [gumPending EXCEPT ![c] = @ - 1]
    /\ webcamRunning' = FALSE
    /\ emitted' = <<>>
    /\ UNCHANGED <<envVars, mounted, hasWebcamSupport, modelLoad, effectDue, srcObject,
                   videoLoaded, onloadeddata, raf, awaiting, videoTime, ticks, presses, lastVideoTime,
                   pushupTemplate, fetchState, machineVars, histVars>>

\* predictWebcam up to its await, called by closure c: with videoRef.current
\* null (canvasRef with it) it returns at once, otherwise it goes on to wait
\* at await poseLandmarker.setOptions(...).  The value is awaiting after the
\* call.  (poseLandmarkerRef is set whenever a stream was requested.)
predictWebcamCalled(c) ==
  IF mounted THEN [awaiting EXCEPT ![c] = @ + 1] ELSE awaiting

\* the video element fires loadeddata: onloadeddata calls predictWebcam()
LoadedData ==
  /\ srcObject
  /\ ~videoLoaded
  /\ onloadeddata # NULL
  /\ Outstanding < MaxLoops
  /\ videoLoaded' = TRUE
  /\ awaiting' = predictWebcamCalled(onloadeddata)
  /\ emitted' = <<>>
  /\ UNCHANGED <<envVars, mounted, hasWebcamSupport, modelLoad, effectDue, webcamRunning,
                 gumPending, srcObject, onloadeddata, raf, videoTime, ticks, presses, lastVideoTime,
                 pushupTemplate, fetchState, machineVars, histVars>>

\* The component unmounts: the first effect's cleanup runs and React clears
\* videoRef, in either order.  When the ref is cleared first the cleanup
\* finds videoRef.current null and leaves the stream as it is.
Unmount ==
  /\ mounted
  /\ mounted' = FALSE
  /\ \E order \in {"cleanupFirst", "refsFirst"} :
       IF order = "cleanupFirst" /\ srcObject
       THEN /\ srcObject' = FALSE
            /\ videoLoaded' = FALSE
            /\ videoTime' = 0
       ELSE UNCHANGED <<srcObject, videoLoaded, videoTime>>
  /\ effectDue' = NULL
  /\ emitted' = <<>>
  /\ UNCHANGED <<envVars, hasWebcamSupport, modelLoad, webcamRunning, gumPending, onloadeddata,
                 raf, awaiting, ticks, presses, lastVideoTime, pushupTemplate, fetchState, machineVars, histVars>>

\* the exercise branch of the detectForVideo callback for a first pose, at
\* video time t; closure c scores with the template it captured
ProcessPose(c, pose, t, now) ==
  CASE excType = "PUSHUPS" ->
         LET features == FrameFeatures(pose, t)
             r == updatePushupState(pushupRefs, features, c, now)
         IN /\ SetPushupRefs(r.m)
            /\ standalone' = standaloneUpdatePushupState(standalone.m, features, now)
            /\ debugLast' = <<[t |-> t, state |-> r.m.pushupState, features |-> features]>>
            /\ emitted' = r.emitted
            /\ topRun' = NextTopRun(features)
            /\ sawBottom' = (sawBottom \/ (features.elbowAngle # NULL
                                           /\ features.elbowAngle <= ELBOW_BOTTOM_ANGLE))
            /\ UNCHANGED <<squatState, squatCurrentRepAngles, squatTopStreak>>
    [] excType = "SQUATS" ->
         LET r == updateSquatState(squatRefs, pose[1], pose[2], now)
         IN /\ SetSquatRefs(r.m)
            /\ emitted' = r.emitted
            /\ topRun' = NextSquatTopRun(pose[1], pose[2])
            /\ UNCHANGED <<pushupState, lastState, currentRep, baselineHeadY, topStreak,
                           bufferInLog, standalone, debugLast, sawBottom>>
    [] excType = "RIGHT_HAND_Y" ->
         /\ emitted' = trackHandY(pose, "RIGHT", now)
         /\ UNCHANGED <<machineVars, histVars>>
    [] excType = "LEFT_HAND_Y" ->
         /\ emitted' = trackHandY(pose, "LEFT", now)
         /\ UNCHANGED <<machineVars, histVars>>

\* an animation frame requested by closure c arrives: predictWebcam is called
AnimationFrameOf(c) ==
  /\ raf[c] > 0
  /\ raf' = [raf EXCEPT ![c] = @ - 1]
  /\ awaiting' = predictWebcamCalled(c)
  /\ emitted' = <<>>
  /\ UNCHANGED <<envVars, mounted, hasWebcamSupport, modelLoad, effectDue, webcamRunning,
                 gumPending, srcObject, videoLoaded, onloadeddata, videoTime, ticks, presses,
                 lastVideoTime, pushupTemplate, fetchState, machineVars, histVars>>

AnimationFrame == \E c \in Closures : AnimationFrameOf(c)

\* variant: two callbacks are requested where the code requests one
requestAnimationFrame_Twice(c) == [raf EXCEPT ![c] = @ + 2]

\* window.requestAnimationFrame(predictWebcam) made by an invocation of
\* closure c: the value is raf after the request
requestAnimationFrame(c) == [raf EXCEPT ![c] = @ + 1]

\* variant: every callback is taken for a new frame
frameIsNew_Always(last, current) == TRUE

\* lastVideoTimeRef.current !== video.currentTime
frameIsNew(last, current) == last # current

\* predictWebcam from its await on, for an invocation of closure c; video and
\* canvas are the elements it read before the await.  adv = 1 when the video
\* has advanced to a new frame since the previous invocation (a scripted
\* camera holds a frame until it has been looked at).  ctx: getContext("2d")
\* returned a context.  results: what detectForVideo may report, <<>> for no
\* pose and <<p>> for a first pose p.  budget: the frames the run may deliver.
predictWebcam(c, adv, ctx, results, budget) ==
  /\ awaiting[c] > 0
  /\ awaiting' = [awaiting EXCEPT ![c] = @ - 1]
  /\ adv = 1 => srcObject /\ videoLoaded /\ ticks < budget
  /\ (adv = 1 /\ script # <<>>) => lastVideoTime = videoTime
  /\ videoTime' = videoTime + adv
  /\ ticks' = ticks + adv
  /\ IF frameIsNew(lastVideoTime, videoTime + adv) THEN
       /\ lastVideoTime' = videoTime + adv
       /\ IF ~ctx THEN
            \* if (!ctx) return: nothing is detected and no frame is requested
            /\ emitted' = <<>>
            /\ UNCHANGED <<raf, machineVars, histVars>>
          ELSE
            /\ \E r \in results :
                 IF r = <<>> THEN
                   /\ emitted' = <<>>
                   /\ UNCHANGED <<machineVars, histVars>>
                 ELSE
                   /\ srcObject /\ videoLoaded
                   /\ \E now \in Timestamps : ProcessPose(c, r[1], videoTime + adv, now)
            /\ raf' = IF webcamRunning THEN requestAnimationFrame(c) ELSE raf
     ELSE
       \* the frame test failed: getContext is not called
       /\ ctx
       /\ emitted' = <<>>
       /\ UNCHANGED <<lastVideoTime, machineVars, histVars>>
       /\ raf' = IF webcamRunning THEN requestAnimationFrame(c) ELSE raf
  /\ UNCHANGED <<envVars, mounted, hasWebcamSupport, modelLoad, effectDue, webcamRunning,
                 gumPending, srcObject, videoLoaded, onloadeddata, presses, pushupTemplate,
                 fetchState>>

\* What detectForVideo may report for the video frame at time t.  A scripted
\* camera shows frame t + 1 of its script at video time t, on every stream;
\* without a loaded stream, or past the script's end, there is no pose.
Results(pushupPoses, squatPoses, t) ==
  IF script # <<>> THEN
    IF t + 1 > Len(script) \/ ~(srcObject /\ videoLoaded) THEN { <<>> }
    ELSE IF excType = "SQUATS" THEN { << <<TRUE, script[t + 1]>> >> }
    ELSE { <<Pose(script[t + 1], h, 1, sy, 4)>> : h \in ScriptHips(script), sy \in ScriptShoulders(script) }
  ELSE
    { <<>> } \cup
    { <<p>> : p \in CASE excType = "PUSHUPS" -> pushupPoses
                      [] excType = "SQUATS" -> squatPoses
                      [] OTHER -> Wrists }

PredictWebcam ==
  \E c \in Closures, adv \in {0, 1}, ctx \in BOOLEAN :
    predictWebcam(c, adv, ctx, Results(CamPushupPoses, CamSquatPoses, videoTime + adv),
                  MaxCamTicks)

Next ==
  \/ CreatePoseLandmarkerResolved
  \/ CreatePoseLandmarkerFailed
  \/ TemplateLoaded
  \/ TemplateFetchFailed
  \/ AutoStartEffect
  \/ GetUserMediaResolved
  \/ GetUserMediaRejected
  \/ LoadedData
  \/ Unmount
  \/ AnimationFrame
  \/ PredictWebcam

Spec == Init /\ [][Next]_vars

\* The browser runs every animation-frame callback it has been asked for,
\* and the call made by onloadeddata returns: a scheduled predictWebcam
\* invocation is eventually executed.
SpecLive == Init /\ [][Next]_vars /\ WF_vars(AnimationFrame) /\ WF_vars(PredictWebcam)

\* ------------------------------------------------------------------
\* The running loop: the webcam was started by a render that held
\* template c0, the stream is live and loadeddata has called predictWebcam
\* ------------------------------------------------------------------
InitRunning ==
  /\ excType \in ExerciseTypes
  /\ script \in CASE excType = "PUSHUPS" -> {<<>>} \cup Scripts
                 [] excType = "SQUATS" -> {<<>>} \cup SquatScripts
                 [] OTHER -> {<<>>}
  /\ call = NoCall
  /\ hasWebcamSupport = TRUE
  /\ mounted = TRUE
  /\ modelLoad = "ready"
  /\ effectDue = NULL
  /\ webcamRunning = TRUE
  /\ gumPending = [c \in Closures |-> 0]
  /\ srcObject = TRUE
  /\ videoLoaded = TRUE
  /\ \E c0 \in Closures :
       /\ onloadeddata = c0
       /\ raf = [c \in Closures |-> 0]
       /\ awaiting = [c \in Closures |-> IF c = c0 THEN 1 ELSE 0]
       /\ pushupTemplate = c0
       /\ fetchState = IF c0 = NoTemplate THEN "pending" ELSE "loaded"
  /\ videoTime = 0
  /\ ticks = 0
  /\ presses = 0
  /\ lastVideoTime = -1
  /\ InitMachines

PredictFrame ==
  \E c \in Closures, adv \in {0, 1}, ctx \in BOOLEAN :
    predictWebcam(c, adv, ctx, Results(PushupPoses, SquatPoses, videoTime + adv),
                  IF script # <<>> THEN Len(script) ELSE MaxTicks)

NextFrames ==
  \/ AnimationFrame
  \/ PredictFrame
  \/ TemplateLoaded
  \/ TemplateFetchFailed

SpecFrames == InitRunning /\ [][NextFrames]_vars

\* ------------------------------------------------------------------
\* The running loop over LogScript, with handleToggleWebcam called again: the
\* stream can be stopped and started again while repetitions are in the log,
\* and the component can unmount while the loop runs
\* ------------------------------------------------------------------
InitLog ==
  /\ excType = "PUSHUPS"
  /\ script = LogScript
  /\ call = NoCall
  /\ hasWebcamSupport = TRUE
  /\ mounted = TRUE
  /\ modelLoad = "ready"
  /\ effectDue = NULL
  /\ webcamRunning = TRUE
  /\ gumPending = [c \in Closures |-> 0]
  /\ srcObject = TRUE
  /\ videoLoaded = TRUE
  /\ onloadeddata = NoTemplate
  /\ raf = [c \in Closures |-> 0]
  /\ awaiting = [c \in Closures |-> IF c = NoTemplate THEN 1 ELSE 0]
  /\ pushupTemplate = NoTemplate
  /\ fetchState = "failed"
  /\ videoTime = 0
  /\ ticks = 0
  /\ presses = 0
  /\ lastVideoTime = -1
  /\ InitMachines

NextLog ==
  \/ AnimationFrame
  \/ PredictFrame
  \/ HandleToggleWebcam
  \/ GetUserMediaResolved
  \/ GetUserMediaRejected
  \/ LoadedData
  \/ Unmount

SpecLog == InitLog /\ [][NextLog]_vars

\* ------------------------------------------------------------------
\* The validator and the scorer called on their own, on any buffer
\* ------------------------------------------------------------------
InitRep ==
  /\ InitComponent
  /\ excType = "PUSHUPS"
  /\ hasWebcamSupport
  /\ \E k \in 0..MaxRepLen :
       \E f \in [1..k -> RepPoses] :
         call = [NoCall EXCEPT !.features = RepBuffer(k, f)]

CallRepIsValid ==
  /\ call.fn = "none"
  /\ call' = [call EXCEPT !.fn = "repIsValid", !.result = repIsValid(call.features)]
  /\ emitted' = <<>>
  /\ UNCHANGED <<excType, script, camVars, videoTime, ticks, presses, lastVideoTime, pushupTemplate,
                 fetchState, machineVars, histVars>>

CallScoreRep ==
  /\ call.fn = "none"
  /\ \E template \in Closures :
       call' = [call EXCEPT !.fn = "scoreRep", !.template = template,
                            !.result = scoreRep(call.features, template)]
  /\ emitted' = <<>>
  /\ UNCHANGED <<excType, script, camVars, videoTime, ticks, presses, lastVideoTime, pushupTemplate,
                 fetchState, machineVars, histVars>>

NextRep == CallRepIsValid \/ CallScoreRep

SpecRep == InitRep /\ [][NextRep]_vars

\* ------------------------------------------------------------------
\* angleDegrees called on its own, on three points of a grid
\* ------------------------------------------------------------------
InitAngle ==
  /\ InitComponent
  /\ excType = "PUSHUPS"
  /\ hasWebcamSupport
  /\ \E e \in AngleExps :
       \E a \in AnglePoints(e), b \in AnglePoints(e), c \in AnglePoints(e) :
         /\ ExactAngle(a, b, c)
         /\ call = [fn |-> "none", a |-> a, b |-> b, c |-> c, result |-> NULL]

CallAngleDegrees ==
  /\ call.fn = "none"
  /\ call' = [call EXCEPT !.fn = "angleDegrees",
                          !.result = angleDegrees(call.a, call.b, call.c)]
  /\ emitted' = <<>>
  /\ UNCHANGED <<excType, script, camVars, videoTime, ticks, presses, lastVideoTime, pushupTemplate,
                 fetchState, machineVars, histVars>>

NextAngle == CallAngleDegrees

SpecAngle == InitAngle /\ [][NextAngle]_vars

\* ------------------------------------------------------------------
\* extractFrameFeatures called on its own, and as the first half of the
\* push-up step of the detectForVideo callback, on any landmark frame
\* ------------------------------------------------------------------
InitExtract ==
  /\ InitComponent
  /\ excType = "PUSHUPS"
  /\ hasWebcamSupport
  /\ \E skeleton \in Skeletons, absent \in AbsentSets, vis \in VisPatterns :
       call = [fn |-> "none", landmarks |-> LandmarksOf(skeleton, absent, vis),
               closure |-> NoTemplate, result |-> NULL]

CallExtractFrameFeatures ==
  /\ call.fn = "none"
  /\ call' = [call EXCEPT !.fn = "extractFrameFeatures",
                          !.result = extractFrameFeatures(call.landmarks, videoTime)]
  /\ emitted' = <<>>
  /\ UNCHANGED <<excType, script, camVars, videoTime, ticks, presses, lastVideoTime, pushupTemplate,
                 fetchState, machineVars, histVars>>

\* const features = extractFrameFeatures(firstPose, t); updatePushupState(features);
\* and the push on debugFramesRef, as the predictWebcam of closure
\* call.closure runs them: the loop was started before the template arrived
\* and keeps the template of its own render
CallPushupStep ==
  /\ call.fn = "none"
  /\ LET features == extractFrameFeatures(call.landmarks, videoTime)
     IN /\ call' = [call EXCEPT !.fn = "pushupStep", !.result = features]
        /\ IF "error" \in DOMAIN features THEN
             /\ emitted' = <<>>
             /\ UNCHANGED <<machineVars, histVars>>
           ELSE
             \E now \in Timestamps :
               LET r == updatePushupState(pushupRefs, features, call.closure, now)
               IN /\ SetPushupRefs(r.m)
                  /\ standalone' = standaloneUpdatePushupState(standalone.m, features, now)
                  /\ debugLast' = <<[t |-> videoTime, state |-> r.m.pushupState,
                                     features |-> features]>>
                  /\ emitted' = r.emitted
                  /\ topRun' = NextTopRun(features)
                  /\ sawBottom' = (sawBottom \/ (features.elbowAngle # NULL
                                                 /\ features.elbowAngle <= ELBOW_BOTTOM_ANGLE))
                  /\ UNCHANGED <<squatState, squatCurrentRepAngles, squatTopStreak>>
  /\ UNCHANGED <<excType, script, camVars, videoTime, ticks, presses, lastVideoTime, pushupTemplate,
                 fetchState>>

NextExtract ==
  \/ CallExtractFrameFeatures
  \/ CallPushupStep
  \/ TemplateLoaded
  \/ TemplateFetchFailed

SpecExtract == InitExtract /\ [][NextExtract]_vars

\* ------------------------------------------------------------------
\* WorkoutStorage called on its own: up to MaxSaves saveSession calls,
\* MaxDeletes deleteSession calls and MaxClears clearAll calls in any order.
\* call.saves counts the saveSession calls made: the n-th call gets id n and
\* date ClockStart + n.
\* ------------------------------------------------------------------
MaxSaves == 52
MaxDeletes == 1
MaxClears == 1
ClockStart == 1000

InitStorage ==
  /\ InitComponent
  /\ excType = "PUSHUPS"
  /\ hasWebcamSupport
  /\ \E hasWindow \in BOOLEAN :
       call = [fn |-> "none", hasWindow |-> hasWindow, item |-> <<>>,
               saves |-> 0, deletes |-> 0, clears |-> 0]

CallSaveSession ==
  /\ call.saves < MaxSaves
  /\ call' = [call EXCEPT !.fn = "saveSession",
                          !.saves = @ + 1,
                          !.item = saveSession(call.hasWindow, call.item,
                                               call.saves + 1, ClockStart + call.saves + 1)]
  /\ UNCHANGED <<excType, script, camVars, videoTime, ticks, presses, lastVideoTime, pushupTemplate,
                 fetchState, machineVars, emitted, histVars>>

\* the id is that of the newest or of the oldest stored session, or unknown
CallDeleteSession ==
  /\ call.deletes < MaxDeletes
  /\ LET sessions == getSessions(call.hasWindow, call.item)
     IN \E id \in {0} \cup { sessions[i].id : i \in {1, Len(sessions)} \cap DOMAIN sessions } :
          call' = [call EXCEPT !.fn = "deleteSession",
                               !.deletes = @ + 1,
                               !.item = deleteSession(call.hasWindow, call.item, id)]
  /\ UNCHANGED <<excType, script, camVars, videoTime, ticks, presses, lastVideoTime, pushupTemplate,
                 fetchState, machineVars, emitted, histVars>>

CallClearAll ==
  /\ call.clears < MaxClears
  /\ call' = [call EXCEPT !.fn = "clearAll",
                          !.clears = @ + 1,
                          !.item = clearAll(call.hasWindow, call.item)]
  /\ UNCHANGED <<excType, script, camVars, videoTime, ticks, presses, lastVideoTime, pushupTemplate,
                 fetchState, machineVars, emitted, histVars>>

NextStorage == CallSaveSession \/ CallDeleteSession \/ CallClearAll

SpecStorage == InitStorage /\ [][NextStorage]_vars

\* ------------------------------------------------------------------
\* getSessions and saveSession on a stored value that this program did not
\* write: the item is any string of the kinds above, arrays of up to
\* MaxStoredLen elements.
\* ------------------------------------------------------------------
MaxStoredLen == 2
MaxCorruptSaves == 2
StoredId == 101

StoredElems ==
  { [elem |-> "object", id |-> id, date |-> d] :
      id \in {StoredId, NULL}, d \in {[iso |-> ClockStart], [jsonNull |-> TRUE]} }
    \cup {[elem |-> "null"], [elem |-> "number"]}

StoredData ==
  { [kind |-> k, elems |-> <<>>] : k \in {"empty", "invalid", "nonArray"} }
    \cup { [kind |-> "array", elems |-> e] :
             e \in UNION { [1..n -> StoredElems] : n \in 0..MaxStoredLen } }

InitCorrupt ==
  /\ InitComponent
  /\ excType = "PUSHUPS"
  /\ hasWebcamSupport
  /\ \E hasWindow \in BOOLEAN, item \in {<<>>} \cup { <<d>> : d \in StoredData } :
       call = [fn |-> "none", hasWindow |-> hasWindow, item |-> item, result |-> <<>>,
               saves |-> 0, deletes |-> 0, clears |-> 0]

\* getSessions only reads the item
CallGetSessions ==
  /\ call.fn # "getSessions"
  /\ call' = [call EXCEPT !.fn = "getSessions",
                          !.result = getSessions(call.hasWindow, call.item)]
  /\ UNCHANGED <<excType, script, camVars, videoTime, ticks, presses, lastVideoTime, pushupTemplate,
                 fetchState, machineVars, emitted, histVars>>

NextCorrupt ==
  \/ CallGetSessions
  \/ call.saves < MaxCorruptSaves /\ CallSaveSession

SpecCorrupt == InitCorrupt /\ [][NextCorrupt]_vars

\* ------------------------------------------------------------------
\* DinoGame (components/games/dino-game.tsx).  call.state is
\* gameStateRef.current, call.pushupCount and call.gameOver are the React
\* states of those names.  Lengths are pixels, velocities pixels per second;
\* time is counted in units of 1 / TimeDen second and deltaTime is a whole
\* number of units, so every product below is exact.  frameCount,
\* lastFrameTime and the FPS counter are written by draw and read by nothing
\* else; they are left out.
\* ------------------------------------------------------------------
TimeDen == 10
CANVAS_WIDTH == 800
SpawnHundredths == 217
OBSTACLE_WIDTH == 20
OBSTACLE_HEIGHT == 30
DINO_START_Y == 150

MaxGameTime == 64
MaxRepCount == 2
MaxRestarts == 1
MaxDelta == 2

initialGameState ==
  [dino |-> [x |-> 50, y |-> DINO_START_Y, width |-> 40, height |-> 40,
             velocityY |-> 0, jumping |-> FALSE],
   obstacles |-> <<>>,
   ground |-> 200,
   gravity |-> 400,
   jumpForce |-> 0 - 400,
   targetSpeed |-> 200,
   score |-> 0,
   isGameOver |-> FALSE,
   obstacleTimer |-> 0]

\* variant: the jumping flag is not consulted
handlePushupCompleted_JumpInAir(state, repCount) ==
  [pushupCount |-> repCount,
   state |-> IF ~state.isGameOver
             THEN [state EXCEPT !.dino.velocityY = state.jumpForce, !.dino.jumping = TRUE]
             ELSE state]

handlePushupCompleted(state, repCount) ==
  [pushupCount |-> repCount,
   state |-> IF ~state.dino.jumping /\ ~state.isGameOver
             THEN [state EXCEPT !.dino.velocityY = state.jumpForce, !.dino.jumping = TRUE]
             ELSE state]

handleSquatCompleted(state, repCount) ==
  [pushupCount |-> repCount,
   state |-> IF ~state.dino.jumping /\ ~state.isGameOver
             THEN [state EXCEPT !.dino.velocityY = state.jumpForce, !.dino.jumping = TRUE]
             ELSE state]

\* jump(), reached from the Space key
jump(state) ==
  IF ~state.dino.jumping /\ ~state.isGameOver
  THEN [state EXCEPT !.dino.velocityY = state.jumpForce, !.dino.jumping = TRUE]
  ELSE state

Collides(dino, obstacle) ==
  /\ dino.x < obstacle.x + obstacle.width
  /\ dino.x + dino.width > obstacle.x
  /\ dino.y < obstacle.y + obstacle.height
  /\ dino.y + dino.height > obstacle.y

\* one call of draw, deltaTime units after the previous one
draw(state, deltaTime) ==
  LET velocityY == state.dino.velocityY + (state.gravity * deltaTime) \div TimeDen
      y == state.dino.y + (velocityY * deltaTime) \div TimeDen
      landed == y >= state.ground - state.dino.height
      dino == IF landed
              THEN [state.dino EXCEPT !.y = state.ground - state.dino.height,
                                      !.velocityY = 0, !.jumping = FALSE]
              ELSE [state.dino EXCEPT !.y = y, !.velocityY = velocityY]
      timer == state.obstacleTimer + deltaTime
      spawn == timer * 100 >= SpawnHundredths * TimeDen
      spawned == IF spawn
                 THEN Append(state.obstacles,
                             [x |-> CANVAS_WIDTH, y |-> state.ground - OBSTACLE_HEIGHT,
                              width |-> OBSTACLE_WIDTH, height |-> OBSTACLE_HEIGHT])
                 ELSE state.obstacles
      moved == [i \in DOMAIN spawned |->
                  [spawned[i] EXCEPT !.x = @ - (state.targetSpeed * deltaTime) \div TimeDen]]
      hit == \E i \in DOMAIN moved : Collides(dino, moved[i])
      kept == SelectSeq(moved, LAMBDA o : ~(o.x + o.width < 0))
  IN [state EXCEPT !.dino = dino,
                   !.obstacleTimer = IF spawn THEN 0 ELSE timer,
                   !.obstacles = kept,
                   !.score = @ + (Len(moved) - Len(kept)),
                   !.isGameOver = @ \/ hit]

\* handleRestart resets the game and calls draw at once
handleRestart(state) ==
  draw([state EXCEPT !.dino.y = DINO_START_Y, !.dino.velocityY = 0, !.dino.jumping = FALSE,
                     !.obstacles = <<>>, !.score = 0, !.isGameOver = FALSE,
                     !.obstacleTimer = 0], 0)

InitDino ==
  /\ InitComponent
  /\ excType = "PUSHUPS"
  /\ hasWebcamSupport
  /\ call = [fn |-> "none", state |-> draw(initialGameState, 0), pushupCount |-> 0,
             gameOver |-> FALSE, detail |-> 0, time |-> 0, restarts |-> 0]

\* the animation frame callback; it is requested only while the game runs.
\* call.time is the time played since the page was opened.
DinoDraw ==
  /\ ~call.state.isGameOver
  /\ \E deltaTime \in 1..MaxDelta :
       /\ call.time + deltaTime <= MaxGameTime
       /\ LET next == draw(call.state, deltaTime)
          IN call' = [call EXCEPT !.fn = "draw", !.state = next,
                                  !.gameOver = @ \/ next.isGameOver,
                                  !.time = @ + deltaTime]
  /\ UNCHANGED <<excType, script, camVars, videoTime, ticks, presses, lastVideoTime, pushupTemplate,
                 fetchState, machineVars, emitted, histVars>>

DinoPushupCompleted ==
  /\ \E repCount \in 1..MaxRepCount :
       LET r == handlePushupCompleted(call.state, repCount)
       IN call' = [call EXCEPT !.fn = "pushupCompleted", !.detail = repCount,
                               !.state = r.state, !.pushupCount = r.pushupCount]
  /\ UNCHANGED <<excType, script, camVars, videoTime, ticks, presses, lastVideoTime, pushupTemplate,
                 fetchState, machineVars, emitted, histVars>>

DinoSquatCompleted ==
  /\ \E repCount \in 1..MaxRepCount :
       LET r == handleSquatCompleted(call.state, repCount)
       IN call' = [call EXCEPT !.fn = "squatCompleted", !.detail = repCount,
                               !.state = r.state, !.pushupCount = r.pushupCount]
  /\ UNCHANGED <<excType, script, camVars, videoTime, ticks, presses, lastVideoTime, pushupTemplate,
                 fetchState, machineVars, emitted, histVars>>

\* handleKeyDown calls jump under the same two conditions
DinoKeyDown ==
  /\ ~call.state.dino.jumping /\ ~call.state.isGameOver
  /\ call' = [call EXCEPT !.fn = "keydown", !.state = jump(call.state)]
  /\ UNCHANGED <<excType, script, camVars, videoTime, ticks, presses, lastVideoTime, pushupTemplate,
                 fetchState, machineVars, emitted, histVars>>

\* the Play Again button is rendered while gameOver
DinoRestart ==
  /\ call.gameOver
  /\ call.restarts < MaxRestarts
  /\ call' = [call EXCEPT !.fn = "restart", !.state = handleRestart(call.state),
                          !.gameOver = FALSE, !.restarts = @ + 1]
  /\ UNCHANGED <<excType, script, camVars, videoTime, ticks, presses, lastVideoTime, pushupTemplate,
                 fetchState, machineVars, emitted, histVars>>

NextDino ==
  \/ DinoDraw
  \/ DinoPushupCompleted
  \/ DinoSquatCompleted
  \/ DinoKeyDown
  \/ DinoRestart

SpecDino == InitDino /\ [][NextDino]_vars

\* ------------------------------------------------------------------
\* The hand tracker called on its own, on any wrist
\* ------------------------------------------------------------------
InitHand ==
  /\ InitComponent
  /\ excType \in {"RIGHT_HAND_Y", "LEFT_HAND_Y"}
  /\ hasWebcamSupport
  /\ \E wrist \in HandWrists :
       call = [fn |-> "none", wrist |-> wrist,
               hand |-> IF excType = "LEFT_HAND_Y" THEN "LEFT" ELSE "RIGHT",
               result |-> NULL]

CallTrackHandY ==
  /\ call.fn = "none"
  /\ \E now \in Timestamps :
       /\ call' = [call EXCEPT !.fn = "trackHandY",
                               !.result = trackHandY(call.wrist, call.hand, now)]
       /\ emitted' = trackHandY(call.wrist, call.hand, now)
  /\ UNCHANGED <<excType, script, camVars, videoTime, ticks, presses, lastVideoTime, pushupTemplate,
                 fetchState, machineVars, histVars>>

NextHand == CallTrackHandY

SpecHand == InitHand /\ [][NextHand]_vars

TypeOK ==
  /\ pushupState \in PushupStates
  /\ squatState \in SquatStates
  /\ topStreak \in 0..START_TOP_STREAK
  /\ uiRepCount <= Len(completedReps)
  /\ mounted => uiRepCount = Len(completedReps)
  /\ bufferInLog \in 0..Len(completedReps)
  /\ topRun \in 0..3
  /\ sawBottom \in BOOLEAN
  /\ Len(debugLast) <= 1
  /\ Len(emitted) <= 1

\* ------------------------------------------------------------------
\* Properties
\* ------------------------------------------------------------------
NoPushupEvent == \A i \in 1..Len(emitted) : emitted[i].type # "pushupCompleted"

\* |shoulderY - hipY| > 0.3, both in eighths
OutOfBand(features) == 10 * Abs(features.shoulderY - features.hipY) > 3 * 8

\* the frame the push-up machine was fed in the step, given as the entry the
\* step pushed on debugFramesRef
FrameFed(before, after) == after # <<>> /\ after # before

MachinesAtRest ==
  /\ pushupState = "WAITING_FOR_START"
  /\ currentRep = <<>>
  /\ topStreak = 0
  /\ squatState = "WAITING_FOR_START"
  /\ squatCurrentRepAngles = <<>>
  /\ squatTopStreak = 0

\* C1: as long as the push-up machine has not been fed 3 consecutive frames
\* with elbow angle >= 160 and hip angle >= 150, it is in WAITING_FOR_START
\* and dispatches no pushupCompleted event.
C1_NoStartWithoutThreeTops ==
  topRun < START_TOP_STREAK => (pushupState = "WAITING_FOR_START" /\ NoPushupEvent)

\* C2 as stated: a frame with |shoulderY - hipY| > 0.3 fed to the push-up
\* machine in a state other than WAITING_FOR_START, whatever its angles,
\* leaves the machine in WAITING_FOR_START with an empty buffer and a zero
\* streak.
C2_UprightFrameAlwaysResets ==
  [][ ( /\ excType = "PUSHUPS"
        /\ pushupState # "WAITING_FOR_START"
        /\ FrameFed(debugLast, debugLast')
        /\ debugLast'[1].features.shoulderY # NULL
        /\ debugLast'[1].features.hipY # NULL
        /\ OutOfBand(debugLast'[1].features) )
      => ( /\ pushupState' = "WAITING_FOR_START"
           /\ currentRep' = <<>>
           /\ topStreak' = 0 ) ]_vars

\* C2, amended: the reset happens for every such frame whose elbow and hip
\* angles are both present; a frame with a missing angle is skipped before
\* the posture gate and leaves the machine as it was.
C2_UprightFrameWithAnglesResets ==
  [][ ( /\ excType = "PUSHUPS"
        /\ pushupState # "WAITING_FOR_START"
        /\ FrameFed(debugLast, debugLast')
        /\ debugLast'[1].features.shoulderY # NULL
        /\ debugLast'[1].features.hipY # NULL
        /\ OutOfBand(debugLast'[1].features) )
      => IF debugLast'[1].features.elbowAngle # NULL /\ debugLast'[1].features.hipAngle # NULL
         THEN /\ pushupState' = "WAITING_FOR_START"
              /\ currentRep' = <<>>
              /\ topStreak' = 0
         ELSE /\ pushupState' = pushupState
              /\ currentRep' = currentRep
              /\ topStreak' = topStreak ]_vars

\* an upright frame with both angles has just thrown the machine out of a
\* repetition that had reached the bottom
C2_Witness ==
  /\ debugLast # <<>>
  /\ debugLast[1].features.elbowAngle # NULL
  /\ debugLast[1].features.hipAngle # NULL
  /\ OutOfBand(debugLast[1].features)
  /\ pushupState = "WAITING_FOR_START"
  /\ lastState = "AT_BOTTOM"
  /\ currentRep = <<>>
  /\ topStreak = 0

\* C3: a step that stops the capture (the OFF branch of the toggle, or the
\* unmount cleanup) leaves both machines in WAITING_FOR_START with empty
\* buffers and zero streaks.
C3_StopResetsMachines ==
  [][ (srcObject /\ ~srcObject') => MachinesAtRest' ]_vars

\* C4: fed the elbow angles 170, 168, 169, 150, 110, 88, 130, 165 (flat, hip
\* angle >= 150) a fresh push-up machine dispatches exactly one
\* pushupCompleted, on the step that feeds it the last frame and with
\* repCount 1; and whenever a frame closes a cycle (GOING_UP to AT_TOP) with at
\* least 6 frames buffered, exactly one pushupCompleted is dispatched and the
\* count grows by exactly 1.
OneMoreRep ==
  /\ Len(emitted') = 1
  /\ emitted'[1].type = "pushupCompleted"
  /\ emitted'[1].repCount = Len(completedReps) + 1
  /\ Len(completedReps') = Len(completedReps) + 1
  /\ uiRepCount' = Len(completedReps) + 1

C4_FullCycleCountsOnce ==
  [][ /\ script = FullRepScript =>
           IF /\ lastVideoTime = Len(FullRepScript) - 2
              /\ lastVideoTime' = Len(FullRepScript) - 1
              /\ FrameFed(debugLast, debugLast')
           THEN OneMoreRep /\ emitted'[1].repCount = 1
           ELSE emitted' = <<>> /\ completedReps' = completedReps
      /\ ( /\ excType = "PUSHUPS"
           /\ pushupState = "GOING_UP"
           /\ pushupState' = "AT_TOP"
           /\ Len(currentRep) + 1 >= 6 ) => OneMoreRep ]_vars

\* the scripted repetition has just been counted on its last frame
C4_Witness ==
  /\ script = FullRepScript
  /\ lastVideoTime = Len(FullRepScript) - 1
  /\ Len(emitted) = 1
  /\ emitted[1].type = "pushupCompleted"
  /\ emitted[1].repCount = 1
  /\ Len(completedReps) = 1
  /\ Len(completedReps[1].features) = 6

\* C5: as long as no frame with elbow angle <= 90 has been fed to the push-up
\* machine, no pushupCompleted is dispatched and the log of completed
\* repetitions is empty.
C5_NoBottomNoRep ==
  (excType = "PUSHUPS" /\ ~sawBottom) => (NoPushupEvent /\ completedReps = <<>>)

\* the frames 170, 168, 169, 150, 168 have all been fed: the machine went down
\* and came back to the top without a repetition
C5_Witness ==
  /\ script = ShallowScript
  /\ lastVideoTime = Len(ShallowScript) - 1
  /\ ~sawBottom
  /\ pushupState = "AT_TOP"
  /\ lastState = "AT_TOP"
  /\ Len(currentRep) = 1
  /\ completedReps = <<>>

\* C6: repIsValid accepts a buffer exactly when at least 6 of its frames have
\* an elbow angle, two of those angles lie at least 40 apart, and one of them
\* is at most 100.
ElbowFrames(features) == { i \in 1..Len(features) : features[i].elbowAngle # NULL }

C6_RepIsValidIff ==
  call.fn = "repIsValid" =>
    ( call.result <=>
        /\ Cardinality(ElbowFrames(call.features)) >= 6
        /\ \E i, j \in ElbowFrames(call.features) :
             call.features[i].elbowAngle - call.features[j].elbowAngle >= 40
        /\ \E i \in ElbowFrames(call.features) : call.features[i].elbowAngle <= 100 )

\* six frames with elbow angles 100 and 141 only: accepted with the lowest
\* angle on the boundary of (c)
C6_Witness ==
  /\ call.fn = "repIsValid"
  /\ call.result = TRUE
  /\ Len(call.features) = 6
  /\ \A i \in 1..6 : call.features[i].elbowAngle \in {100, 141}
  /\ \E i \in 1..6 : call.features[i].elbowAngle = 100

\* C7: every entry the push-up machine has appended to the log of completed
\* repetitions has a correctness that is a number from 0 to 100, whichever
\* strategy scored it.
C7_CorrectnessInRange ==
  excType = "PUSHUPS" =>
    \A i \in 1..Len(completedReps) :
      /\ completedReps[i].correctness.den > 0
      /\ 0 <= completedReps[i].correctness.num
      /\ completedReps[i].correctness.num <= 100 * completedReps[i].correctness.den

\* a repetition scored against the 3-phase template by the loop that holds
\* it, far enough from the profile to land on the lower end of the range
C7_Witness ==
  /\ excType = "PUSHUPS"
  /\ raf[2] > 0
  /\ Len(completedReps) = 1
  /\ completedReps[1].correctness.num = 0
  /\ completedReps[1].correctness.den > 0

\* C8: with no template, scoreRep of a buffer holding an elbow angle and a
\* hip angle is clamp(clamp(range/80, 0, 1) * 70
\*                    + clamp((maxHip - 140)/40, 0, 1) * 30, 0, 100),
\* range being the spread of the elbow angles and maxHip the largest hip angle.
HipFrames(features) == { i \in 1..Len(features) : features[i].hipAngle # NULL }

\* score is the rule-based value of features; in eighths the value is
\* 7 * clamp(range, 0, 80) + 6 * clamp(maxHip - 140, 0, 40), at most 800
RuleBasedValue(features, score) ==
  LET hi == CHOOSE i \in ElbowFrames(features) :
              \A j \in ElbowFrames(features) : features[j].elbowAngle <= features[i].elbowAngle
      lo == CHOOSE i \in ElbowFrames(features) :
              \A j \in ElbowFrames(features) : features[j].elbowAngle >= features[i].elbowAngle
      hp == CHOOSE i \in HipFrames(features) :
              \A j \in HipFrames(features) : features[j].hipAngle <= features[i].hipAngle
      range == features[hi].elbowAngle - features[lo].elbowAngle
      over == features[hp].hipAngle - 140
      cr == IF range < 0 THEN 0 ELSE IF range > 80 THEN 80 ELSE range
      ch == IF over < 0 THEN 0 ELSE IF over > 40 THEN 40 ELSE over
  IN /\ score.den > 0
     /\ score.num * 8 = (7 * cr + 6 * ch) * score.den

C8_RuleBasedFormula ==
  ( /\ call.fn = "scoreRep"
    /\ call.template = NoTemplate
    /\ ElbowFrames(call.features) # {}
    /\ HipFrames(call.features) # {} )
  => RuleBasedValue(call.features, call.result)

\* elbow angles 20 and 101, hip angle 141: a range above 80 and a hip angle
\* inside its band give 70 + 0.75
C8_Witness ==
  /\ call.fn = "scoreRep"
  /\ call.template = NoTemplate
  /\ Len(call.features) = 2
  /\ call.features[1].elbowAngle = 20
  /\ call.features[2].elbowAngle = 101
  /\ call.result.num * 8 = 566 * call.result.den
  /\ call.result.den > 0

\* C9: while pushupTemplate is null, a repetition the push-up machine appends
\* carries the rule-based score, a number; and a template fetch that fails
\* leaves pushupTemplate null and the machine's state, buffer and log as
\* they were.
C9_NoTemplateRuleBased ==
  [][ /\ ( /\ excType = "PUSHUPS"
           /\ pushupTemplate' = NoTemplate
           /\ Len(completedReps') = Len(completedReps) + 1 )
         => RuleBasedValue(completedReps'[Len(completedReps')].features,
                           completedReps'[Len(completedReps')].correctness)
      /\ (fetchState = "pending" /\ fetchState' = "failed")
         => /\ pushupTemplate' = NoTemplate
            /\ UNCHANGED <<pushupState, lastState, currentRep, completedReps,
                           baselineHeadY, topStreak, uiRepCount>> ]_vars

\* the fetch has failed and a repetition has just been scored
C9_Witness ==
  /\ excType = "PUSHUPS"
  /\ fetchState = "failed"
  /\ pushupTemplate = NoTemplate
  /\ Len(completedReps) = 1
  /\ Len(emitted) = 1
  /\ RuleBasedValue(completedReps[1].features, emitted[1].score)

\* C10: every pushupCompleted and squatCompleted event carries a score from
\* 0 to 100, a count >= 1 equal to the length of the log of completed
\* repetitions, and a timestamp.
C10_EventsCarryScoreCountTime ==
  \A i \in 1..Len(emitted) :
    emitted[i].type \in {"pushupCompleted", "squatCompleted"} =>
      /\ "score" \in DOMAIN emitted[i]
      /\ RatInRange(0, 100, emitted[i].score)
      /\ "repCount" \in DOMAIN emitted[i]
      /\ emitted[i].repCount >= 1
      /\ emitted[i].repCount = Len(completedReps)
      /\ "timestamp" \in DOMAIN emitted[i]

\* C11: a step dispatches at most one event; a repetition event is
\* dispatched exactly when the step appends one entry to the log of completed
\* repetitions, and it carries the new length of the log, so successive events
\* carry 1, 2, 3, ...
RepEvent(e) == e.type \in {"pushupCompleted", "squatCompleted"}

C11_OneEventPerRep ==
  [][ /\ Len(emitted') <= 1
      /\ IF emitted' # <<>> /\ RepEvent(emitted'[1])
         THEN /\ Len(completedReps') = Len(completedReps) + 1
              /\ SubSeq(completedReps', 1, Len(completedReps)) = completedReps
              /\ emitted'[1].repCount = Len(completedReps) + 1
         ELSE completedReps' = completedReps ]_vars

\* the second scripted push-up has just been counted
C11_Witness ==
  /\ script = TwoRepScript
  /\ Len(emitted) = 1
  /\ emitted[1].type = "pushupCompleted"
  /\ emitted[1].repCount = 2
  /\ Len(completedReps) = 2

\* C12: when the push-up machine in GOING_UP is fed an "at top" frame, it
\* ends in AT_TOP with a buffer holding that frame alone; and if the buffer
\* closed by the frame fails the validator's criteria, no event is dispatched
\* and the log and the count stay as they were.
MeetsCriteria(features) ==
  /\ Cardinality(ElbowFrames(features)) >= 6
  /\ \E i, j \in ElbowFrames(features) :
       features[i].elbowAngle - features[j].elbowAngle >= 40
  /\ \E i \in ElbowFrames(features) : features[i].elbowAngle <= 100

AtTopFrame(features) ==
  /\ features.elbowAngle # NULL /\ features.hipAngle # NULL
  /\ features.shoulderY # NULL /\ features.hipY # NULL
  /\ ~OutOfBand(features)
  /\ features.elbowAngle >= 160 /\ features.hipAngle >= 150

C12_RejectedRepIsSilent ==
  [][ ( /\ excType = "PUSHUPS"
        /\ pushupState = "GOING_UP"
        /\ FrameFed(debugLast, debugLast')
        /\ AtTopFrame(debugLast'[1].features) )
      => /\ pushupState' = "AT_TOP"
         /\ currentRep' = <<debugLast'[1].features>>
         /\ ~MeetsCriteria(Append(currentRep, debugLast'[1].features))
              => /\ emitted' = <<>>
                 /\ completedReps' = completedReps
                 /\ uiRepCount' = uiRepCount ]_vars

\* the scripted 5-frame cycle has been closed and dropped
C12_Witness ==
  /\ script = ShortRepScript
  /\ lastVideoTime = Len(ShortRepScript) - 1
  /\ sawBottom
  /\ pushupState = "AT_TOP"
  /\ Len(currentRep) = 1
  /\ currentRep[1] = debugLast[1].features
  /\ completedReps = <<>>
  /\ uiRepCount = 0
  /\ emitted = <<>>

\* C13: when a frame with knee angle >= 165 closes a squat cycle (GOING_UP to
\* STANDING), a repetition with correctness 100 is appended and one
\* squatCompleted is dispatched exactly when the buffer, the closing angle
\* included, holds at least 6 knee angles with a spread >= 35 and a lowest
\* angle <= 105; otherwise nothing is appended or dispatched.
SquatCriteria(angles) ==
  /\ Len(angles) >= 6
  /\ \E i, j \in 1..Len(angles) : angles[i] - angles[j] >= 35
  /\ \E i \in 1..Len(angles) : angles[i] <= 105

C13_SquatRepIff ==
  [][ ( /\ excType = "SQUATS"
        /\ squatState = "GOING_UP"
        /\ squatState' = "STANDING" )
      => /\ Len(squatCurrentRepAngles') = 1
         /\ squatCurrentRepAngles'[1] >= 165
         /\ IF SquatCriteria(Append(squatCurrentRepAngles, squatCurrentRepAngles'[1]))
            THEN /\ Len(completedReps') = Len(completedReps) + 1
                 /\ completedReps'[Len(completedReps')].correctness.den > 0
                 /\ completedReps'[Len(completedReps')].correctness.num
                      = 100 * completedReps'[Len(completedReps')].correctness.den
                 /\ Len(emitted') = 1
                 /\ emitted'[1].type = "squatCompleted"
            ELSE /\ completedReps' = completedReps
                 /\ emitted' = <<>> ]_vars

\* the scripted squat down to 95 has been counted, once, with 100
C13_Witness ==
  /\ script = SquatScript
  /\ lastVideoTime = Len(SquatScript) - 1
  /\ squatState = "STANDING"
  /\ Len(completedReps) = 1
  /\ completedReps[1].correctness = Rat(100, 1)
  /\ Len(emitted) = 1
  /\ emitted[1].type = "squatCompleted"
  /\ emitted[1].repCount = 1

\* C14: for a wrist that passes the visibility gate, the value carried by
\* handYUpdate is 1 - clamp(wrist.y, 0, 1); it lies within [0, 1], and no
\* wrist at the same height or lower in the image (larger wrist.y) gets a
\* larger value, also when wrist.y lies below 0 or above 1.
PassesGate(wrist) ==
  wrist # <<>> /\ wrist[1].visibility # NULL /\ 10 * wrist[1].visibility >= 4 * VisDen

C14_HandValue ==
  (call.fn = "trackHandY" /\ PassesGate(call.wrist)) =>
    /\ Len(call.result) = 1
    /\ call.result[1].y =
         YDen - (IF call.wrist[1].y < 0 THEN 0
                 ELSE IF call.wrist[1].y > YDen THEN YDen ELSE call.wrist[1].y)
    /\ 0 <= call.result[1].y /\ call.result[1].y <= YDen
    /\ \A other \in HandWrists :
         (PassesGate(other) /\ call.wrist[1].y <= other[1].y) =>
           trackHandY(other, call.hand, 1001)[1].y <= call.result[1].y

\* a wrist above the top edge of the image (y = -2/8) is reported as 1
C14_Witness ==
  /\ call.fn = "trackHandY"
  /\ PassesGate(call.wrist)
  /\ call.wrist[1].y = 0 - 2
  /\ Len(emitted) = 1
  /\ emitted[1].y = YDen

\* C15: trackHandY dispatches nothing for an absent wrist or one with
\* visibility < 0.4, and for every other wrist exactly one handYUpdate with
\* the hand it was given; either way the push-up and squat state, streaks,
\* buffers and log stay as they were.
C15_HandEventOrNothing ==
  [][ (call.fn = "none" /\ call'.fn = "trackHandY") =>
        /\ IF PassesGate(call.wrist)
           THEN /\ Len(emitted') = 1
                /\ emitted'[1].type = "handYUpdate"
                /\ emitted'[1].hand = call.hand
           ELSE emitted' = <<>>
        /\ UNCHANGED <<pushupState, lastState, currentRep, topStreak, baselineHeadY,
                       squatState, squatCurrentRepAngles, squatTopStreak,
                       completedReps, uiRepCount>> ]_vars

\* a left wrist exactly at the gate has been reported
C15_Witness ==
  /\ call.fn = "trackHandY"
  /\ call.hand = "LEFT"
  /\ call.wrist # <<>>
  /\ call.wrist[1].visibility = 4
  /\ Len(emitted) = 1
  /\ emitted[1].type = "handYUpdate"
  /\ emitted[1].hand = "LEFT"

\* C17, as claimed: angleDegrees(a, b, c) is null when a or c coincides
\* with b in the (x, y) plane, and a number from 0 to 180 otherwise; it is
\* never NaN.
SamePoint(p, q) == p[1].x = q[1].x /\ p[1].y = q[1].y

LengthsCountedIn(c) == c.b[1].exp

PresentKey(landmarks) ==
  { j \in {"lSh", "lEl", "lWr", "rSh", "rEl", "rWr", "lHip", "lAnk", "rHip", "rAnk"} :
      landmarks[j] # <<>> }

\* eight times the sum of the visibilities of the joints in S
RECURSIVE EighthsSeen(_, _)
EighthsSeen(landmarks, S) ==
  IF S = {} THEN 0
  ELSE LET j == CHOOSE k \in S : TRUE
       IN (IF landmarks[j][1].visibility = NULL THEN 0 ELSE landmarks[j][1].visibility)
            + EighthsSeen(landmarks, S \ {j})

\* sum / (8 * count) < 4 / 10
BelowGate(landmarks) ==
  \/ PresentKey(landmarks) = {}
  \/ 10 * EighthsSeen(landmarks, PresentKey(landmarks))
       < 4 * 8 * Cardinality(PresentKey(landmarks))

MeanYInEighths(landmarks, left, right) ==
  CASE landmarks[left] # <<>> /\ landmarks[right] # <<>> ->
         landmarks[left][1].y + landmarks[right][1].y
    [] landmarks[left] # <<>> /\ landmarks[right] = <<>> -> 2 * landmarks[left][1].y
    [] landmarks[left] = <<>> /\ landmarks[right] # <<>> -> 2 * landmarks[right][1].y
    [] OTHER -> NULL

C16_LowVisibilityNoAngles ==
  (call.fn = "extractFrameFeatures" /\ BelowGate(call.landmarks)) =>
    /\ DOMAIN call.result = {"t", "elbowAngle", "hipAngle", "headY", "shoulderY", "hipY"}
    /\ call.result.elbowAngle = NULL
    /\ call.result.hipAngle = NULL
    /\ call.result.headY =
         (IF call.landmarks["nose"] = <<>> THEN NULL ELSE 2 * call.landmarks["nose"][1].y)
    /\ call.result.shoulderY = MeanYInEighths(call.landmarks, "lSh", "rSh")
    /\ call.result.hipY = MeanYInEighths(call.landmarks, "lHip", "rHip")

\* the left shoulder is absent, six of the nine joints left are invisible
\* and three fully visible, a mean of 1/3: no angles, shoulderY is the right
\* shoulder's height and hipY the mean of two hips at different heights
C16_Witness ==
  /\ call.fn = "extractFrameFeatures"
  /\ BelowGate(call.landmarks)
  /\ call.landmarks["lSh"] = <<>>
  /\ Cardinality(PresentKey(call.landmarks)) = 9
  /\ EighthsSeen(call.landmarks, PresentKey(call.landmarks)) = 3 * 8
  /\ call.landmarks["rSh"] # <<>>
  /\ call.result.elbowAngle = NULL
  /\ call.result.hipAngle = NULL
  /\ call.result.shoulderY = 2 * call.landmarks["rSh"][1].y
  /\ call.landmarks["lHip"][1].y # call.landmarks["rHip"][1].y
  /\ call.result.hipY = call.landmarks["lHip"][1].y + call.landmarks["rHip"][1].y

\* C18: whatever points of a landmark frame are absent or invisible, the
\* push-up step (extractFrameFeatures, then updatePushupState) completes
\* without raising an error.
C18_PushupStepNeverRaises ==
  call.fn = "pushupStep" => ~("error" \in DOMAIN call.result)

\* C19: every change of the push-up state is WAITING_FOR_START -> AT_TOP,
\* AT_TOP -> GOING_DOWN, GOING_DOWN -> AT_BOTTOM, GOING_DOWN -> AT_TOP,
\* AT_BOTTOM -> GOING_UP, GOING_UP -> AT_TOP, or a reset to WAITING_FOR_START
\* from any other state; a repetition is appended to the log only on
\* GOING_UP -> AT_TOP; GOING_UP never leads to AT_BOTTOM or GOING_DOWN.
AllowedPushupChanges ==
  { <<"WAITING_FOR_START", "AT_TOP">>, <<"AT_TOP", "GOING_DOWN">>,
    <<"GOING_DOWN", "AT_BOTTOM">>, <<"GOING_DOWN", "AT_TOP">>,
    <<"AT_BOTTOM", "GOING_UP">>, <<"GOING_UP", "AT_TOP">> }
    \cup { <<s, "WAITING_FOR_START">> : s \in PushupStates \ {"WAITING_FOR_START"} }

C19_OnlyListedTransitions ==
  [][ excType = "PUSHUPS" =>
        /\ pushupState' # pushupState =>
             <<pushupState, pushupState'>> \in AllowedPushupChanges
        /\ Len(completedReps') > Len(completedReps) =>
             (pushupState = "GOING_UP" /\ pushupState' = "AT_TOP")
        /\ pushupState = "GOING_UP" =>
             pushupState' \notin {"AT_BOTTOM", "GOING_DOWN"} ]_vars

\* the machine has gone twice through AT_TOP, GOING_DOWN, AT_BOTTOM and
\* GOING_UP, logged a repetition each time, and is back at the top
C19_Witness ==
  /\ excType = "PUSHUPS"
  /\ Len(completedReps) = 2
  /\ pushupState = "AT_TOP"
  /\ lastState = "AT_TOP"
  /\ Len(currentRep) = 1
  /\ sawBottom

\* C20: in AT_TOP every horizontal frame with both angles is appended to the
\* buffer, and the machine moves to GOING_DOWN on exactly the frames whose
\* elbow angle is <= 155 (five degrees below the top threshold, 155 included).
HorizontalWithAngles(features) ==
  /\ features.elbowAngle # NULL /\ features.hipAngle # NULL
  /\ features.shoulderY # NULL /\ features.hipY # NULL
  /\ ~OutOfBand(features)

C20_LeavesTopAtFiveBelow ==
  [][ ( /\ excType = "PUSHUPS"
        /\ pushupState = "AT_TOP"
        /\ FrameFed(debugLast, debugLast')
        /\ HorizontalWithAngles(debugLast'[1].features) )
      => /\ currentRep' = Append(currentRep, debugLast'[1].features)
         /\ (pushupState' = "GOING_DOWN") <=> (debugLast'[1].features.elbowAngle <= 155)
         /\ pushupState' \in {"AT_TOP", "GOING_DOWN"} ]_vars

\* C21: in AT_BOTTOM every horizontal frame with both angles is appended to
\* the buffer, and the machine moves to GOING_UP on exactly the frames whose
\* elbow angle is >= 95 (five degrees above the bottom threshold, 95 included).
C21_LeavesBottomAtFiveAbove ==
  [][ ( /\ excType = "PUSHUPS"
        /\ pushupState = "AT_BOTTOM"
        /\ FrameFed(debugLast, debugLast')
        /\ HorizontalWithAngles(debugLast'[1].features) )
      => /\ currentRep' = Append(currentRep, debugLast'[1].features)
         /\ (pushupState' = "GOING_UP") <=> (debugLast'[1].features.elbowAngle >= 95)
         /\ pushupState' \in {"AT_BOTTOM", "GOING_UP"} ]_vars

\* C22: in GOING_DOWN, a frame that passes the angle and posture gates and
\* is at top (elbow >= 160, hip >= 150; it cannot be at bottom as well)
\* returns the machine to AT_TOP, leaves exactly that frame in the buffer,
\* changes neither the log nor the count and emits nothing; one that is at
\* bottom (elbow <= 90) moves the machine to AT_BOTTOM and appends the frame
\* to the buffer, which is otherwise kept.
C22_AbortOrReachBottom ==
  [][ ( /\ excType = "PUSHUPS"
        /\ pushupState = "GOING_DOWN"
        /\ FrameFed(debugLast, debugLast')
        /\ HorizontalWithAngles(debugLast'[1].features) )
      => /\ ( /\ AtTopFrame(debugLast'[1].features)
              /\ ~(debugLast'[1].features.elbowAngle <= 90) )
            => /\ pushupState' = "AT_TOP"
               /\ currentRep' = <<debugLast'[1].features>>
               /\ completedReps' = completedReps
               /\ uiRepCount' = uiRepCount
               /\ emitted' = <<>>
         /\ debugLast'[1].features.elbowAngle <= 90
            => /\ pushupState' = "AT_BOTTOM"
               /\ currentRep' = Append(currentRep, debugLast'[1].features) ]_vars

\* the scripted descent was broken off: back at the top with only the last
\* frame buffered, nothing logged
C22_Witness ==
  /\ script = ShallowScript
  /\ lastVideoTime = Len(ShallowScript) - 1
  /\ pushupState = "AT_TOP"
  /\ lastState = "AT_TOP"
  /\ AtTopFrame(debugLast[1].features)
  /\ currentRep = <<debugLast[1].features>>
  /\ completedReps = <<>>
  /\ uiRepCount = 0
  /\ emitted = <<>>

\* C23: a frame whose elbow angle or hip angle is null changes neither the
\* push-up state, nor the in-progress buffer, nor the log, and emits nothing;
\* in WAITING_FOR_START it sets the streak to 0, in every other state it
\* leaves the streak as it was.
C23_NullAngleFrameIsSkipped ==
  [][ ( /\ excType = "PUSHUPS"
        /\ FrameFed(debugLast, debugLast')
        /\ ( debugLast'[1].features.elbowAngle = NULL
               \/ debugLast'[1].features.hipAngle = NULL ) )
      => /\ pushupState' = pushupState
         /\ currentRep' = currentRep
         /\ completedReps' = completedReps
         /\ uiRepCount' = uiRepCount
         /\ emitted' = <<>>
         /\ topStreak' = (IF pushupState = "WAITING_FOR_START" THEN 0 ELSE topStreak) ]_vars

\* going down, a frame with an elbow angle but no hip angle has been fed and
\* skipped: the buffer still ends with the frame before it, the streak stands
C23_Witness ==
  /\ excType = "PUSHUPS"
  /\ debugLast # <<>>
  /\ debugLast[1].features.elbowAngle # NULL
  /\ debugLast[1].features.hipAngle = NULL
  /\ pushupState = "GOING_DOWN"
  /\ topStreak = START_TOP_STREAK
  /\ Len(currentRep) >= 2
  /\ currentRep[Len(currentRep)].t < debugLast[1].t

\* C24: in WAITING_FOR_START every frame that is not a start frame (an angle
\* missing, shoulderY or hipY missing, body not horizontal, or not at top)
\* sets the start streak to 0.
C24_NonStartFrameZeroesStreak ==
  [][ ( /\ excType = "PUSHUPS"
        /\ pushupState = "WAITING_FOR_START"
        /\ FrameFed(debugLast, debugLast')
        /\ ~AtTopFrame(debugLast'[1].features) )
      => topStreak' = 0 ]_vars

\* C25: the squat machine has left WAITING_FOR_START only if the frames
\* processed so far include 3 consecutive ones with sufficient visibility and
\* knee angle >= 165; a low-visibility frame, a frame without a knee angle or
\* a frame with knee angle < 165 in between restarts the count.
C25_SquatStartNeedsThreeStanding ==
  (excType = "SQUATS" /\ topRun < START_TOP_STREAK) => squatState = "WAITING_FOR_START"

\* C26: a log entry, once appended, keeps its features and its correctness
\* under every later step; entries are neither removed nor reordered; and the
\* buffer that later frames are pushed on is never the array stored in a log
\* entry.
C26_LoggedRepsAreImmutable ==
  [][ /\ Len(completedReps') >= Len(completedReps)
      /\ \A i \in 1..Len(completedReps) :
           /\ completedReps'[i].features = completedReps[i].features
           /\ completedReps'[i].correctness = completedReps[i].correctness
      /\ bufferInLog' = 0 ]_vars

\* after the first scripted repetition was logged, three more frames have
\* been pushed on the buffer and the logged features still end at the frame
\* that closed the repetition
C26_Witness ==
  /\ script = TwoRepScript
  /\ Len(completedReps) = 1
  /\ Len(currentRep) = 4
  /\ pushupState = "AT_BOTTOM"
  /\ bufferInLog = 0
  /\ Len(completedReps[1].features) = 6
  /\ completedReps[1].features[6] = currentRep[1]

\* C27: as long as no template has been loaded, the standalone push-up
\* component, shown the same frames, is in the same state with the same
\* streak, in-progress buffer and log as the combined component, and a
\* pushupCompleted event of the combined component is one the standalone
\* component dispatched on that frame with the same payload.
C27_SameAsStandalone ==
  (excType = "PUSHUPS" /\ fetchState # "loaded") =>
    /\ standalone.m.pushupState = pushupState
    /\ standalone.m.topStreak = topStreak
    /\ standalone.m.currentRep = currentRep
    /\ standalone.m.completedReps = completedReps
    /\ standalone.m.uiRepCount = uiRepCount
    /\ emitted # <<>> => standalone.emitted = emitted

\* both components have just counted the scripted repetition
C27_Witness ==
  /\ excType = "PUSHUPS"
  /\ fetchState # "loaded"
  /\ script = FullRepScript
  /\ Len(emitted) = 1
  /\ emitted[1].repCount = 1
  /\ standalone.emitted = emitted
  /\ Len(standalone.m.completedReps) = 1
  /\ standalone.m.completedReps = completedReps

\* C28: a repetition closed after the template fetch has resolved carries
\* the template-based score, whenever the template arrived, before or after
\* the prediction loop was started.
C28_LoadedTemplateScores ==
  [][ ( /\ excType = "PUSHUPS"
        /\ fetchState = "loaded"
        /\ Len(completedReps') = Len(completedReps) + 1 )
      => completedReps'[Len(completedReps')].correctness
           = templateScore(completedReps'[Len(completedReps')].features,
                           TemplateTable[pushupTemplate]) ]_vars

\* C29: a predictWebcam callback that finds video.currentTime equal to the
\* time of the previously processed callback updates no state machine and
\* dispatches nothing: streaks, buffers, log and count stay as they were.
C29_DuplicateFrameIsSkipped ==
  [][ videoTime' = lastVideoTime
      => /\ UNCHANGED <<pushupState, lastState, currentRep, completedReps, baselineHeadY,
                        topStreak, squatState, squatCurrentRepAngles, squatTopStreak,
                        uiRepCount, debugLast, lastVideoTime>>
         /\ emitted' = <<>> ]_vars

\* the template was there from the start; the frame that closed the scripted
\* repetition has been seen a second time and nothing was added
C29_Witness ==
  /\ script = FullRepScript
  /\ onloadeddata # NoTemplate
  /\ lastVideoTime = Len(FullRepScript) - 1
  /\ videoTime = lastVideoTime
  /\ pushupState = "AT_TOP"
  /\ Len(completedReps) = 1
  /\ Len(currentRep) = 1
  /\ emitted = <<>>

\* C30: whatever saveSession, deleteSession and clearAll calls were made, the
\* stored list holds at most 50 sessions, each saved later than the one
\* behind it; saveSession puts the new session first, keeps the sessions that
\* were stored in their order behind it and drops only those beyond the 50th.
StoredIds(item) ==
  IF item = <<>> THEN <<>> ELSE [i \in 1..Len(item[1].elems) |-> item[1].elems[i].id]

C30_AtMostFiftyNewestFirst ==
  [][ LET before == StoredIds(call.item)
          after == StoredIds(call'.item)
      IN /\ Len(after) <= 50
         /\ \A i, j \in 1..Len(after) : i < j => after[i] > after[j]
         /\ (call'.saves = call.saves + 1 /\ call.hasWindow)
            => /\ after[1] = call'.saves
               /\ Len(after) = (IF Len(before) < 50 THEN Len(before) + 1 ELSE 50)
               /\ \A i \in 2..Len(after) : after[i] = before[i - 1] ]_vars

\* 52 sessions were saved and none deleted: the 50 newest are stored, the
\* newest first, the first two are gone
C30_Witness ==
  /\ "item" \in DOMAIN call
  /\ call.saves = 52
  /\ call.deletes = 0
  /\ call.clears = 0
  /\ Len(StoredIds(call.item)) = 50
  /\ StoredIds(call.item)[1] = 52
  /\ StoredIds(call.item)[50] = 3

\* ------------------------------------------------------------------
\* C31: getSessions returns a list for every stored value.  For a missing
\* item, and for a stored string that cannot be read as a list of sessions
\* (the empty string, text that is not JSON, JSON that is not an array, an
\* array with a null element), it returns the empty list and leaves the item
\* as it was; a saveSession on such an item stores the list holding only the
\* new session.  (A stored array of numbers is read without an exception,
\* as sessions with an invalid date, and is not one of these values.)
\* ------------------------------------------------------------------
Unreadable(item) ==
  /\ item # <<>>
  /\ \/ item[1].kind \in {"empty", "invalid", "nonArray"}
     \/ \E i \in DOMAIN item[1].elems : item[1].elems[i] = [elem |-> "null"]

C31_CorruptStorageReadsEmpty ==
  [][/\ call'.fn = "getSessions" =>
          /\ call'.item = call.item
          /\ \A i \in DOMAIN call'.result : DOMAIN call'.result[i] = {"id", "date"}
          /\ (call.item = <<>> \/ Unreadable(call.item)) => call'.result = <<>>
     /\ (call'.fn = "saveSession" /\ call'.saves # call.saves
           /\ call.hasWindow /\ Unreadable(call.item)) =>
          call'.item = << Stringify(<< [id |-> call'.saves, date |-> ClockStart + call'.saves] >>) >>
    ]_vars

\* a stored array holding a session and a null element has been read as the
\* empty list and is still in storage
C31_Witness ==
  /\ call.fn = "getSessions"
  /\ call.hasWindow
  /\ Unreadable(call.item)
  /\ call.item[1].kind = "array"
  /\ \E i \in DOMAIN call.item[1].elems : call.item[1].elems[i].elem = "object"
  /\ call.result = <<>>

\* ------------------------------------------------------------------
\* C32: a pushupCompleted or squatCompleted event always sets the displayed
\* repetition count to its repCount.  It starts a jump (velocityY becomes
\* jumpForce, jumping becomes true) when the dino is not jumping and the
\* game is not over, and otherwise leaves the game state as it was.
\* ------------------------------------------------------------------
C32_JumpOnlyFromGround ==
  [][call'.fn \in {"pushupCompleted", "squatCompleted"} =>
       /\ call'.pushupCount = call'.detail
       /\ IF ~call.state.dino.jumping /\ ~call.state.isGameOver
          THEN /\ call'.state.dino.velocityY = call.state.jumpForce
               /\ call'.state.dino.jumping
          ELSE /\ call'.state.dino.velocityY = call.state.dino.velocityY
               /\ call'.state.dino.jumping = call.state.dino.jumping
               /\ call'.state = call.state
    ]_vars

\* a push-up event has arrived in mid-jump: the dino keeps falling at the
\* speed it had, and the count shows the event's repCount
C32_Witness ==
  /\ call.fn = "pushupCompleted"
  /\ call.state.dino.jumping
  /\ call.state.dino.velocityY > 0
  /\ call.pushupCount = 2
  /\ call.detail = 2

\* ------------------------------------------------------------------
\* C33: every buffer the push-up machine closes (a frame at top arriving in
\* GOING_UP, the closing frame included) holds only non-null elbow angles,
\* one of them <= 90 and one >= 160, and at least 5 frames.  The closed rep
\* is logged exactly when the buffer holds 6 frames or more; a buffer of 5
\* frames is dropped.
\* ------------------------------------------------------------------
C33_ClosedBufferSpansRange ==
  [][ ( /\ excType = "PUSHUPS"
        /\ pushupState = "GOING_UP"
        /\ pushupState' = "AT_TOP"
        /\ FrameFed(debugLast, debugLast') )
      => LET closed == Append(currentRep, debugLast'[1].features)
         IN /\ \A i \in 1..Len(closed) : closed[i].elbowAngle # NULL
            /\ \E i \in 1..Len(closed) : closed[i].elbowAngle <= 90
            /\ \E i \in 1..Len(closed) : closed[i].elbowAngle >= 160
            /\ Len(closed) >= 5
            /\ (Len(completedReps') = Len(completedReps) + 1) <=> (Len(closed) >= 6)
            /\ Len(closed) = 5 => completedReps' = completedReps /\ emitted' = <<>> ]_vars

\* the scripted cycle of 5 buffered frames (169, 150, 88, 130, 165) has been
\* closed and dropped; the standalone machine dropped it as well
C33_Witness ==
  /\ script = ShortRepScript
  /\ lastVideoTime = Len(ShortRepScript) - 1
  /\ pushupState = "AT_TOP"
  /\ lastState = "AT_TOP"
  /\ topStreak = 3
  /\ sawBottom
  /\ debugLast[1].features.elbowAngle = 165
  /\ currentRep = <<debugLast[1].features>>
  /\ completedReps = <<>>
  /\ standalone.m.completedReps = <<>>

\* ------------------------------------------------------------------
\* C34: while pushupTemplate is null, every pushupCompleted event carries a
\* score of at least 68.75 (61.25 points for an elbow range of 70 degrees
\* and 7.5 points for a hip angle of 150 degrees).
\* ------------------------------------------------------------------
C34_RuleScoreAtLeast ==
  (excType = "PUSHUPS" /\ pushupTemplate = NoTemplate) =>
    \A i \in 1..Len(emitted) :
      emitted[i].type = "pushupCompleted" => RatLeq(Rat(275, 4), emitted[i].score)

\* the minimal repetition has been logged with a score of exactly 68.75
C34_Witness ==
  /\ script = MinimalRepScript
  /\ pushupTemplate = NoTemplate
  /\ Len(emitted) = 1
  /\ emitted[1].type = "pushupCompleted"
  /\ emitted[1].score.num * 4 = 275 * emitted[1].score.den
  /\ Len(completedReps) = 1
  /\ SeqMax(HipAnglesOf(completedReps[1].features)) = 150
  /\ SeqMax(ElbowAnglesOf(completedReps[1].features))
       - SeqMin(ElbowAnglesOf(completedReps[1].features)) = 70

\* ------------------------------------------------------------------
\* C35: the in-progress push-up buffer is empty exactly when the machine is
\* in WAITING_FOR_START.  When it is not empty its first frame is at top
\* (elbow >= 160, hip >= 150), and every frame in it has an elbow angle and
\* a hip angle and |shoulderY - hipY| <= 0.3.
\* ------------------------------------------------------------------
C35_BufferShape ==
  /\ (currentRep = <<>>) <=> (pushupState = "WAITING_FOR_START")
  /\ currentRep # <<>> =>
       /\ currentRep[1].elbowAngle >= 160
       /\ currentRep[1].hipAngle >= 150
  /\ \A i \in 1..Len(currentRep) :
       /\ currentRep[i].elbowAngle # NULL
       /\ currentRep[i].hipAngle # NULL
       /\ currentRep[i].shoulderY # NULL
       /\ currentRep[i].hipY # NULL
       /\ 10 * Abs(currentRep[i].shoulderY - currentRep[i].hipY) <= 3 * YDen

\* free frames: the machine is at the bottom with the start frame, a
\* descending frame and a bottom frame buffered
C35_Witness ==
  /\ excType = "PUSHUPS"
  /\ script = <<>>
  /\ pushupState = "AT_BOTTOM"
  /\ Len(currentRep) = 3
  /\ currentRep[1].elbowAngle >= 160 /\ currentRep[1].hipAngle >= 150
  /\ currentRep[2].elbowAngle < 155
  /\ currentRep[3].elbowAngle <= 90
  /\ currentRep[3] = debugLast[1].features

\* ------------------------------------------------------------------
\* C36: the push-up start streak is always one of 0, 1, 2, 3; it is at most
\* 2 while the machine is in WAITING_FOR_START and exactly 3 in every other
\* state.
\* ------------------------------------------------------------------
C36_StreakFollowsState ==
  /\ topStreak \in {0, 1, 2, 3}
  /\ pushupState = "WAITING_FOR_START" => topStreak <= 2
  /\ pushupState # "WAITING_FOR_START" => topStreak = 3

\* the machine was started, thrown back to WAITING_FOR_START by an upright
\* frame, and has counted two top frames again
C36_Witness ==
  /\ excType = "PUSHUPS"
  /\ pushupState = "WAITING_FOR_START"
  /\ lastState # "WAITING_FOR_START"
  /\ topStreak = 2
  /\ currentRep = <<>>

\* ------------------------------------------------------------------
\* C37: the log of completed push-ups only grows.  No step (a frame of any
\* kind, a webcam toggle, a stream callback) removes or changes an entry or
\* lowers the displayed count; a posture force-reset (a step from another
\* state to WAITING_FOR_START) and a webcam toggle leave the log and the
\* count exactly as they were.
\* ------------------------------------------------------------------
C37_LogOnlyGrows ==
  [][ /\ Len(completedReps') >= Len(completedReps)
      /\ \A i \in 1..Len(completedReps) : completedReps'[i] = completedReps[i]
      /\ uiRepCount' >= uiRepCount
      /\ (pushupState # "WAITING_FOR_START" /\ pushupState' = "WAITING_FOR_START")
           => (completedReps' = completedReps /\ uiRepCount' = uiRepCount)
      /\ webcamRunning' # webcamRunning
           => (completedReps' = completedReps /\ uiRepCount' = uiRepCount)
      /\ (pushupState = "GOING_DOWN" /\ pushupState' = "AT_TOP")
           => (completedReps' = completedReps /\ uiRepCount' = uiRepCount) ]_vars

\* two repetitions are in the log; the third cycle was rejected, and the
\* last frame, an upright one, has thrown the machine back to
\* WAITING_FOR_START
C37_Witness ==
  /\ script = LogScript
  /\ lastVideoTime = Len(LogScript) - 1
  /\ Len(completedReps) = 2
  /\ uiRepCount = 2
  /\ pushupState = "WAITING_FOR_START"
  /\ lastState = "AT_TOP"
  /\ currentRep = <<>>
  /\ OutOfBand(debugLast[1].features)
  /\ debugLast[1].t = Len(LogScript) - 1

\* ------------------------------------------------------------------
\* C38: once the squat machine has left WAITING_FOR_START, no frame brings
\* it back (a low-visibility frame included), and its buffer is kept or
\* extended by the frame's knee angle on every step except an aborted
\* descent (GOING_DOWN to STANDING) and a closed cycle (GOING_UP to
\* STANDING), which leave only the frame's knee angle in it.
\* ------------------------------------------------------------------
C38_SquatNeverBackToStart ==
  [][ (excType = "SQUATS" /\ squatState # "WAITING_FOR_START")
      => /\ squatState' # "WAITING_FOR_START"
         /\ \/ squatCurrentRepAngles' = squatCurrentRepAngles
            \/ /\ Len(squatCurrentRepAngles') = Len(squatCurrentRepAngles) + 1
               /\ SubSeq(squatCurrentRepAngles', 1, Len(squatCurrentRepAngles))
                    = squatCurrentRepAngles
            \/ /\ squatState \in {"GOING_DOWN", "GOING_UP"}
               /\ squatState' = "STANDING"
               /\ Len(squatCurrentRepAngles') = 1
               /\ squatCurrentRepAngles'[1] >= 165 ]_vars

\* three standing frames and a descending one were followed by a frame that
\* added nothing (low visibility, or no knee angle, or no pose): the machine
\* is still going down with its two knee angles buffered
C38_Witness ==
  /\ excType = "SQUATS"
  /\ script = <<>>
  /\ squatState = "GOING_DOWN"
  /\ squatTopStreak = 3
  /\ Len(squatCurrentRepAngles) = 2
  /\ squatCurrentRepAngles[1] >= 165
  /\ lastVideoTime = 4
  /\ topRun = 3
  /\ emitted = <<>>

\* ------------------------------------------------------------------
\* C39: at most one predictWebcam loop is live at any time, whatever the
\* order in which the model load, the template fetch, the auto-start effect,
\* the stream, loadeddata, the animation frames and the unmount arrive:
\* never more than one predictWebcam invocation is scheduled or waiting at
\* its await; and if from some point on the webcam stays off or the
\* component stays unmounted, then from some point on no predictWebcam
\* invocation is scheduled or waiting (the loop has stopped re-scheduling
\* itself).  The auto-start effect is the only caller of handleToggleWebcam
\* on the page, so the webcam is turned on at most once per mount.
\* ------------------------------------------------------------------
LiveLoops == BagSize(raf, Closures) + BagSize(awaiting, Closures)

=============================================================================
